---- MODULE Spec2Model ----
(***************************************************************************)
(* Party Drink Tracker (bobbyc-brs/DryRun-PartyApp).                       *)
(*                                                                         *)
(* The model covers the persistent tables (Guest, Drink, DrinkConsumption),*)
(* the two list files (~/guest-list, ~/drinks/drink-list.csv), the guest   *)
(* and host request handlers and the two scripts (init_sample_data.py,     *)
(* cleanup.py) that read and write them, and the two BAC estimators:       *)
(* Guest.calculate_bac (app/models.py) and the timeline loop of bac_chart  *)
(* / group_bac_chart (app/host/routes.py).                                 *)
(*                                                                         *)
(* Numbers.  The code computes in binary floating point (Python float,     *)
(* IEEE 754 binary64) and so does the model: a double is a sign, a         *)
(* mantissa of 53 bits and an exponent, and every operation rounds its     *)
(* exact result to the nearest double, ties to even (see "Doubles").       *)
(* round(x, 3) is returned as a whole number of thousandths of a percent,  *)
(* so 33 stands for 0.033 and 500 for 0.5.  Times are whole minutes;       *)
(* weights are whole pounds; ABV is a whole percentage; volumes are whole  *)
(* millilitres.                                                            *)
(***************************************************************************)
EXTENDS Integers, Sequences, FiniteSets, TLC

\* None / NULL; a present value x is the one-element tuple << x >>
NULL == << >>

Some(x) == << x >>

(***************************************************************************)
(* Natural numbers of up to 112 bits: tuples of eight limbs, least         *)
(* significant first, each limb in 0..Limb-1.  The top limb of a           *)
(* difference is negative when the difference is.                          *)
(***************************************************************************)
Limb == 2^14

BigZero == << 0, 0, 0, 0, 0, 0, 0, 0 >>

\* carry propagation: eight column sums to eight limbs
Carry(c) ==
    LET s2 == c[2] + (c[1] \div Limb)
        s3 == c[3] + (s2 \div Limb)
        s4 == c[4] + (s3 \div Limb)
        s5 == c[5] + (s4 \div Limb)
        s6 == c[6] + (s5 \div Limb)
        s7 == c[7] + (s6 \div Limb)
    IN  << c[1] % Limb, s2 % Limb, s3 % Limb, s4 % Limb, s5 % Limb,
           s6 % Limb, s7 % Limb, c[8] + (s7 \div Limb) >>

BigAdd(a, b) ==
    Carry(<< a[1] + b[1], a[2] + b[2], a[3] + b[3], a[4] + b[4],
             a[5] + b[5], a[6] + b[6], a[7] + b[7], a[8] + b[8] >>)

BigSub(a, b) ==
    Carry(<< a[1] - b[1], a[2] - b[2], a[3] - b[3], a[4] - b[4],
             a[5] - b[5], a[6] - b[6], a[7] - b[7], a[8] - b[8] >>)

\* a * k for 0 <= k < Limb
BigScale(a, k) ==
    Carry(<< a[1] * k, a[2] * k, a[3] * k, a[4] * k,
             a[5] * k, a[6] * k, a[7] * k, a[8] * k >>)

BigLimb(n, j) == IF j >= 1 /\ j <= 8 THEN n[j] ELSE 0

\* a < b
BigLess(a, b) ==
    IF a[8] # b[8] THEN a[8] < b[8]
    ELSE IF a[7] # b[7] THEN a[7] < b[7]
    ELSE IF a[6] # b[6] THEN a[6] < b[6]
    ELSE IF a[5] # b[5] THEN a[5] < b[5]
    ELSE IF a[4] # b[4] THEN a[4] < b[4]
    ELSE IF a[3] # b[3] THEN a[3] < b[3]
    ELSE IF a[2] # b[2] THEN a[2] < b[2]
    ELSE a[1] < b[1]

\* the number of bits of a limb
BitLen(x) ==
    IF x < 128
    THEN IF x < 8
         THEN IF x < 2 THEN x ELSE IF x < 4 THEN 2 ELSE 3
         ELSE IF x < 32 THEN (IF x < 16 THEN 4 ELSE 5)
              ELSE IF x < 64 THEN 6 ELSE 7
    ELSE IF x < 1024
         THEN IF x < 256 THEN 8 ELSE IF x < 512 THEN 9 ELSE 10
         ELSE IF x < 4096 THEN (IF x < 2048 THEN 11 ELSE 12)
              ELSE IF x < 8192 THEN 13 ELSE 14

\* the number of bits of n
BigBits(n) ==
    IF n[8] > 0 THEN 98 + BitLen(n[8])
    ELSE IF n[7] > 0 THEN 84 + BitLen(n[7])
    ELSE IF n[6] > 0 THEN 70 + BitLen(n[6])
    ELSE IF n[5] > 0 THEN 56 + BitLen(n[5])
    ELSE IF n[4] > 0 THEN 42 + BitLen(n[4])
    ELSE IF n[3] > 0 THEN 28 + BitLen(n[3])
    ELSE IF n[2] > 0 THEN 14 + BitLen(n[2])
    ELSE BitLen(n[1])

\* floor(n / 2^k)
ShiftRight(n, k) ==
    LET a == k \div 14
        p == 2^(k % 14)
        h == Limb \div p
        limb(i) == (BigLimb(n, i + a) \div p) + (BigLimb(n, i + a + 1) % p) * h
    IN  << limb(1), limb(2), limb(3), limb(4), limb(5), limb(6), limb(7), limb(8) >>

\* n * 2^k
ShiftLeft(n, k) ==
    LET a == k \div 14
        p == 2^(k % 14)
        h == Limb \div p
        limb(i) == ((BigLimb(n, i - a) * p) % Limb) + (BigLimb(n, i - a - 1) \div h)
    IN  << limb(1), limb(2), limb(3), limb(4), limb(5), limb(6), limb(7), limb(8) >>

\* n mod 2^k # 0
LowBits(n, k) ==
    LET a == k \div 14
    IN  \/ BigLimb(n, a + 1) % 2^(k % 14) # 0
        \/ a >= 1 /\ n[1] # 0
        \/ a >= 2 /\ n[2] # 0
        \/ a >= 3 /\ n[3] # 0
        \/ a >= 4 /\ n[4] # 0
        \/ a >= 5 /\ n[5] # 0
        \/ a >= 6 /\ n[6] # 0
        \/ a >= 7 /\ n[7] # 0

\* bit k of n (bit 0 is the lowest)
Bit(n, k) == (BigLimb(n, (k \div 14) + 1) \div 2^(k % 14)) % 2

(***************************************************************************)
(* Doubles.  A double other than 0 is [sign, man, exp] with sign 1 or -1   *)
(* and 2^52 <= man < 2^53, and stands for sign * man * 2^exp; 0.0 is       *)
(* FZero.  The values of the program stay far from the largest and the     *)
(* smallest double, so exp is not limited, and no NaN or infinity is ever  *)
(* stored (see stored_weight).                                             *)
(***************************************************************************)
FZero == [sign |-> 1, man |-> BigZero, exp |-> 0]

IsZero(x) == x.man[4] = 0

\* the double nearest to sign * (n + f) * 2^e, ties to even, where 0 <= f < 1
\* and sticky tells whether f > 0 (then n has more than 53 bits)
Pack(sign, n, e, sticky) ==
    LET len == BigBits(n)
    IN  IF len = 0 THEN FZero
        ELSE IF len <= 53
        THEN [sign |-> sign, man |-> ShiftLeft(n, 53 - len), exp |-> e - (53 - len)]
        ELSE LET k  == len - 53
                 q  == ShiftRight(n, k)
                 up == /\ Bit(n, k - 1) = 1
                       /\ LowBits(n, k - 1) \/ sticky \/ q[1] % 2 = 1
                 m  == IF up
                       THEN Carry(<< q[1] + 1, q[2], q[3], q[4], q[5], q[6], q[7],
                                     q[8] >>)
                       ELSE q
             IN  IF m[4] = 2048
                 THEN [sign |-> sign, man |-> << 0, 0, 0, 1024, 0, 0, 0, 0 >>,
                       exp |-> e + k + 1]
                 ELSE [sign |-> sign, man |-> m, exp |-> e + k]

\* the double of an integer i, |i| < 2^31 (a Float column read back, or
\* timedelta.total_seconds())
Float(i) ==
    LET a == IF i < 0 THEN 0 - i ELSE i
    IN  Pack(IF i < 0 THEN -1 ELSE 1,
             << a % Limb, (a \div Limb) % Limb, a \div (Limb * Limb), 0, 0, 0, 0, 0 >>,
             0, FALSE)

\* -x
FNeg(x) == [x EXCEPT !.sign = 0 - x.sign]

\* x * y
FMul(x, y) ==
    IF IsZero(x) \/ IsZero(y) THEN FZero
    ELSE LET a == x.man
             b == y.man
         IN  Pack(x.sign * y.sign,
                  Carry(<< a[1] * b[1],
                           a[1] * b[2] + a[2] * b[1],
                           a[1] * b[3] + a[2] * b[2] + a[3] * b[1],
                           a[1] * b[4] + a[2] * b[3] + a[3] * b[2] + a[4] * b[1],
                           a[2] * b[4] + a[3] * b[3] + a[4] * b[2],
                           a[3] * b[4] + a[4] * b[3],
                           a[4] * b[4],
                           0 >>),
                  x.exp + y.exp, FALSE)

\* one digit of a long division: for 0 <= r < d and d[4] >= Limb / 2, the
\* q and r' with r * Limb = q * d + r' and 0 <= r' < d.  The estimate from
\* the top limbs is at most 2 too large.
RECURSIVE DivFix(_, _, _)
DivFix(t, d, q) ==
    IF t[8] < 0 THEN DivFix(BigAdd(t, d), d, q - 1) ELSE [q |-> q, r |-> t]

DivDigit(r, d) ==
    LET r1   == << 0, r[1], r[2], r[3], r[4], 0, 0, 0 >>
        est  == (r1[5] * Limb + r1[4]) \div d[4]
        qhat == IF est > Limb - 1 THEN Limb - 1 ELSE est
    IN  DivFix(BigSub(r1, BigScale(d, qhat)), d, qhat)

\* x / y for y # 0: 54 bits of the quotient of the mantissas and whether
\* the division left a remainder
FDiv(x, y) ==
    IF IsZero(x) THEN FZero
    ELSE LET ge == ~BigLess(x.man, y.man)
             a  == IF ge THEN x.man ELSE BigScale(x.man, 2)
             d  == BigScale(y.man, 8)
             s4 == DivDigit(a, d)
             s3 == DivDigit(s4.r, d)
             s2 == DivDigit(s3.r, d)
             s1 == DivDigit(s2.r, d)
         IN  Pack(x.sign * y.sign,
                  << s1.q, s2.q, s3.q, s4.q, 0, 0, 0, 0 >>,
                  x.exp - y.exp - (IF ge THEN 53 ELSE 54),
                  s1.r # BigZero)

\* x + y: exact when the exponents are 55 or less apart, and the operand of
\* the larger exponent when they are further apart
FAdd(x, y) ==
    IF IsZero(x) THEN y
    ELSE IF IsZero(y) THEN x
    ELSE LET hi == IF x.exp >= y.exp THEN x ELSE y
             lo == IF x.exp >= y.exp THEN y ELSE x
             d  == hi.exp - lo.exp
         IN  IF d > 55 THEN hi
             ELSE LET h == ShiftLeft(hi.man, d)
                  IN  IF hi.sign = lo.sign
                      THEN Pack(hi.sign, BigAdd(h, lo.man), lo.exp, FALSE)
                      ELSE IF BigLess(h, lo.man)
                      THEN Pack(lo.sign, BigSub(lo.man, h), lo.exp, FALSE)
                      ELSE Pack(hi.sign, BigSub(h, lo.man), lo.exp, FALSE)

\* x - y
FSub(x, y) == FAdd(x, FNeg(y))

\* x < y
FLess(x, y) ==
    IF IsZero(x) THEN ~IsZero(y) /\ y.sign = 1
    ELSE IF IsZero(y) THEN x.sign = -1
    ELSE IF x.sign # y.sign THEN x.sign = -1
    ELSE IF x.sign = 1
    THEN x.exp < y.exp \/ (x.exp = y.exp /\ BigLess(x.man, y.man))
    ELSE y.exp < x.exp \/ (x.exp = y.exp /\ BigLess(y.man, x.man))

\* max(a, b) of Python: b when b > a, else a
max(a, b) == IF FLess(a, b) THEN b ELSE a

\* mutant of min: the smaller value is not taken
min_first(a, b) == a

\* min(a, b) of Python: b when b < a, else a
min(a, b) == IF FLess(b, a) THEN b ELSE a

\* mutant of round: rounds to 2 decimals whatever ndigits is
round_two_decimals(x, ndigits) ==
    IF IsZero(x) THEN 0
    ELSE LET n  == BigScale(x.man, 10^2)
             k  == 0 - x.exp
             q  == ShiftRight(n, k)
             up == /\ Bit(n, k - 1) = 1
                   /\ LowBits(n, k - 1) \/ q[1] % 2 = 1
             v  == q[1] + q[2] * Limb + q[3] * Limb * Limb + (IF up THEN 1 ELSE 0)
         IN  x.sign * v * 10^(ndigits - 2)

(***************************************************************************)
(* round(x, ndigits) for a double x with |x| < 2^31 / 10^ndigits and       *)
(* 0 <= ndigits <= 4, as the whole number v of units of 10^-ndigits for    *)
(* which Python returns the double nearest to v / 10^ndigits.  Python      *)
(* rounds the exact value of the double, man * 2^exp, and sends a value    *)
(* exactly halfway to the even neighbour.                                  *)
(***************************************************************************)
round(x, ndigits) ==
    IF IsZero(x) THEN 0
    ELSE LET n  == BigScale(x.man, 10^ndigits)
             k  == 0 - x.exp
             q  == ShiftRight(n, k)
             up == /\ Bit(n, k - 1) = 1
                   /\ LowBits(n, k - 1) \/ q[1] % 2 = 1
             v  == q[1] + q[2] * Limb + q[3] * Limb * Limb + (IF up THEN 1 ELSE 0)
         IN  x.sign * v

(***************************************************************************)
(* Program constants (app/constants.py).  A decimal literal is the double  *)
(* nearest to it, which is the correctly rounded quotient of two integers. *)
(***************************************************************************)
\* ETHANOL_DENSITY_G_PER_ML = 0.789
ETHANOL_DENSITY_G_PER_ML == FDiv(Float(789), Float(1000))
\* AVERAGE_GENDER_CONSTANT = 0.62
AVERAGE_GENDER_CONSTANT == FDiv(Float(62), Float(100))
\* LBS_TO_KG_CONVERSION = 0.453592
LBS_TO_KG_CONVERSION == FDiv(Float(453592), Float(1000000))
\* BAC_METABOLISM_RATE = 0.015
BAC_METABOLISM_RATE == FDiv(Float(15), Float(1000))
\* BAC_DISPLAY_CAP = 0.5
BAC_DISPLAY_CAP == FDiv(Float(5), Float(10))
\* BAC_DECIMAL_PRECISION = 3: results are whole thousandths of a percent
BAC_DECIMAL_PRECISION == 3
\* timedelta(hours=6): length of the chart window
HISTORY_HOURS == 6
\* timedelta(minutes=15): distance between two chart samples
INTERVAL_MINUTES == 15

(***************************************************************************)
(* The tables and the files.  A row's primary key is its position in the   *)
(* sequence (SQLite hands out 1, 2, 3, ... and no handler deletes a row).  *)
(*   guests[i]       = [name, weight]          weight is NULL or Some(lb)  *)
(*   drinks[i]       = [name, abv, volume_ml]                              *)
(*   consumptions[i] = [guest_id, drink_id, timestamp]   timestamp in UTC  *)
(* guest_list_file is NULL when ~/guest-list does not exist and Some(text) *)
(* when it does, a text being the sequence of its characters and a         *)
(* character its code point; drink_list_file is NULL or Some(rows), the    *)
(* rows pandas.read_csv yields for ~/drinks/drink-list.csv.  db_file is    *)
(* TRUE while instance/party_drinks.db holds the tables: create_app() and  *)
(* init_sample_data.py create them, cleanup.py removes the file, and until *)
(* they are created again every query fails with "no such table".          *)
(* utcnow is the clock (datetime.utcnow(), in minutes) and resp the         *)
(* response of the last request.  The server's local UTC offset belongs to *)
(* its environment (the TZ setting, daylight saving time); a request that  *)
(* reads the local clock, datetime.now(), takes the offset as an input.    *)
(* A request is one step for every transaction it commits, and between    *)
(* the steps of one request the steps of others are taken: inflight holds  *)
(* the requests that have steps left.  index commits twice, every other    *)
(* request once or never.  "The scripts" adds the runs of                  *)
(* init_sample_data.py and cleanup.py, statement by statement,             *)
(* "Concurrent requests" splits the steps further, at every statement that *)
(* reaches the database, and "The charts and the clock" splits bac_chart   *)
(* and group_bac_chart where they load rows and read the clock.            *)
(***************************************************************************)
VARIABLES guests, drinks, consumptions, guest_list_file, drink_list_file,
          db_file, utcnow, resp, inflight

vars == << guests, drinks, consumptions, guest_list_file, drink_list_file,
           db_file, utcnow, resp, inflight >>

\* guest.drinks: the consumption rows of one guest, in primary-key order
guest_drinks(guest_id) ==
    SelectSeq(consumptions, LAMBDA c : c.guest_id = guest_id)

\* mutant of no_weight: the test `guest.weight <= 0` is forgotten
no_weight_falsy_only(weight) == weight = NULL \/ weight[1] = 0

\* `not guest.weight or guest.weight <= 0`
no_weight(weight) == weight = NULL \/ weight[1] = 0 \/ weight[1] <= 0

\* drink.abv * drink.volume_ml * ETHANOL_DENSITY_G_PER_ML / 100
alcohol_grams(drink) ==
    FDiv(FMul(FMul(Float(drink.abv), Float(drink.volume_ml)),
              ETHANOL_DENSITY_G_PER_ML),
         Float(100))

\* (later - earlier).total_seconds() / 3600 for two instants in minutes
hours_between(earlier, later) ==
    FDiv(Float((later - earlier) * 60), Float(3600))

(***************************************************************************)
(* Guest.calculate_bac, for a stored weight, the guest's consumption rows  *)
(* and the reading of datetime.now().                                      *)
(***************************************************************************)
\* mutant of remaining_alcohol: the floor max(0, ...) is forgotten
remaining_alcohol_no_floor(weight, consumption, current_time) ==
    LET hours_elapsed == hours_between(consumption.timestamp, current_time)
    IN  FSub(alcohol_grams(drinks[consumption.drink_id]),
             FMul(FMul(FMul(BAC_METABOLISM_RATE, hours_elapsed), Float(weight)),
                  LBS_TO_KG_CONVERSION))

\* mutant of remaining_alcohol: nothing is metabolised
remaining_alcohol_no_decay(weight, consumption, current_time) ==
    max(FZero, alcohol_grams(drinks[consumption.drink_id]))

\* max(0, alcohol_grams - (BAC_METABOLISM_RATE * hours_elapsed * self.weight
\*                         * LBS_TO_KG_CONVERSION))
remaining_alcohol(weight, consumption, current_time) ==
    LET hours_elapsed == hours_between(consumption.timestamp, current_time)
    IN  max(FZero,
            FSub(alcohol_grams(drinks[consumption.drink_id]),
                 FMul(FMul(FMul(BAC_METABOLISM_RATE, hours_elapsed), Float(weight)),
                      LBS_TO_KG_CONVERSION)))

\* mutant of total_remaining: the sum is floored at 0, not each event
RECURSIVE signed_remaining(_, _, _, _)
signed_remaining(weight, cons, current_time, n) ==
    IF n = 0 THEN FZero
    ELSE FAdd(signed_remaining(weight, cons, current_time, n - 1),
              remaining_alcohol_no_floor(weight, cons[n], current_time))

total_remaining_floor_sum(weight, cons, current_time, n) ==
    max(FZero, signed_remaining(weight, cons, current_time, n))

\* total_alcohol_grams after the first n rounds of the loop
RECURSIVE total_remaining(_, _, _, _)
total_remaining(weight, cons, current_time, n) ==
    IF n = 0 THEN FZero
    ELSE FAdd(total_remaining(weight, cons, current_time, n - 1),
              remaining_alcohol(weight, cons[n], current_time))

calculate_bac(weight, cons, current_time) ==
    IF no_weight(weight) THEN 0
    ELSE LET total_alcohol == total_remaining(weight[1], cons, current_time, Len(cons))
             weight_kg     == FMul(Float(weight[1]), LBS_TO_KG_CONVERSION)
             bac           == FMul(FDiv(total_alcohol,
                                        FMul(weight_kg, AVERAGE_GENDER_CONSTANT)),
                                   Float(100))
         IN  round(min(bac, BAC_DISPLAY_CAP), BAC_DECIMAL_PRECISION)

(***************************************************************************)
(* One sample of the timeline loop that bac_chart and group_bac_chart      *)
(* share, for a positive weight, the guest's consumption rows and the      *)
(* sample instant.                                                         *)
(***************************************************************************)
\* mutant of relevant_consumptions: events after the sample are not dropped
relevant_consumptions_all(cons, timestamp) == cons

\* [c for c in guest.drinks if c.timestamp <= timestamp]
relevant_consumptions(cons, timestamp) ==
    SelectSeq(cons, LAMBDA c : c.timestamp <= timestamp)

\* total_alcohol_grams after the first n rounds of the loop
RECURSIVE total_alcohol_grams(_, _)
total_alcohol_grams(cons, n) ==
    IF n = 0 THEN FZero
    ELSE FAdd(total_alcohol_grams(cons, n - 1),
              alcohol_grams(drinks[cons[n].drink_id]))

\* min(relevant_consumptions, key=lambda c: c.timestamp).timestamp
earliest_consumption(cons) ==
    CHOOSE t \in { cons[i].timestamp : i \in 1..Len(cons) } :
        \A i \in 1..Len(cons) : t <= cons[i].timestamp

\* mutant of bac_sample: a sample without relevant consumptions is not 0
bac_sample_default(weight, cons, timestamp) ==
    LET relevant == relevant_consumptions(cons, timestamp)
    IN  IF Len(relevant) = 0 THEN round(BAC_DISPLAY_CAP, BAC_DECIMAL_PRECISION)
        ELSE LET weight_grams == FMul(FMul(Float(weight), LBS_TO_KG_CONVERSION),
                                      Float(1000))
                 raw == FMul(FDiv(total_alcohol_grams(relevant, Len(relevant)),
                                  FMul(weight_grams, AVERAGE_GENDER_CONSTANT)),
                             Float(100))
                 total_hours_elapsed ==
                     hours_between(earliest_consumption(relevant), timestamp)
                 metabolized_bac == FMul(BAC_METABOLISM_RATE, total_hours_elapsed)
                 bac == max(FZero, FSub(raw, metabolized_bac))
             IN  round(min(bac, BAC_DISPLAY_CAP), BAC_DECIMAL_PRECISION)

\* mutant of bac_sample: the metabolised share is added, not subtracted
bac_sample_rising(weight, cons, timestamp) ==
    LET relevant == relevant_consumptions(cons, timestamp)
    IN  IF Len(relevant) = 0 THEN 0
        ELSE LET weight_grams == FMul(FMul(Float(weight), LBS_TO_KG_CONVERSION),
                                      Float(1000))
                 raw == FMul(FDiv(total_alcohol_grams(relevant, Len(relevant)),
                                  FMul(weight_grams, AVERAGE_GENDER_CONSTANT)),
                             Float(100))
                 total_hours_elapsed ==
                     hours_between(earliest_consumption(relevant), timestamp)
                 metabolized_bac == FMul(BAC_METABOLISM_RATE, total_hours_elapsed)
                 bac == max(FZero, FAdd(raw, metabolized_bac))
             IN  round(min(bac, BAC_DISPLAY_CAP), BAC_DECIMAL_PRECISION)

bac_sample(weight, cons, timestamp) ==
    LET relevant == relevant_consumptions(cons, timestamp)
    IN  IF Len(relevant) = 0 THEN 0
        ELSE LET weight_grams == FMul(FMul(Float(weight), LBS_TO_KG_CONVERSION),
                                      Float(1000))
                 raw == FMul(FDiv(total_alcohol_grams(relevant, Len(relevant)),
                                  FMul(weight_grams, AVERAGE_GENDER_CONSTANT)),
                             Float(100))
                 total_hours_elapsed ==
                     hours_between(earliest_consumption(relevant), timestamp)
                 metabolized_bac == FMul(BAC_METABOLISM_RATE, total_hours_elapsed)
                 bac == max(FZero, FSub(raw, metabolized_bac))
             IN  round(min(bac, BAC_DISPLAY_CAP), BAC_DECIMAL_PRECISION)

\* mutant of timestamps_from: `while current < now` leaves the window end out
RECURSIVE timestamps_from_open(_, _)
timestamps_from_open(current, now) ==
    IF current < now
    THEN << current >> \o timestamps_from_open(current + INTERVAL_MINUTES, now)
    ELSE << >>

\* the `while current <= now` loop that fills timestamps
RECURSIVE timestamps_from(_, _)
timestamps_from(current, now) ==
    IF current <= now
    THEN << current >> \o timestamps_from(current + INTERVAL_MINUTES, now)
    ELSE << >>

\* mutant of chart_timestamps: the window starts 5 minutes late
chart_timestamps_late(now) ==
    timestamps_from(now - HISTORY_HOURS * 60 + 5, now)

chart_timestamps(now) == timestamps_from(now - HISTORY_HOURS * 60, now)

bac_values(weight, cons, timestamps) ==
    [ i \in 1..Len(timestamps) |-> bac_sample(weight, cons, timestamps[i]) ]

(***************************************************************************)
(* Text.  A string is the sequence of its characters, a character is its   *)
(* Unicode code point: 65 is "A", 32 the blank, 9 the tab, 10 the line     *)
(* feed, 13 the carriage return.                                           *)
(***************************************************************************)
\* the characters str.strip() removes (those for which str.isspace() holds)
Whitespace ==
    (9..13) \cup (28..32) \cup {133, 160, 5760} \cup (8192..8202)
        \cup {8232, 8233, 8239, 8287, 12288}

RECURSIVE lstrip(_)
lstrip(s) ==
    IF Len(s) > 0 /\ Head(s) \in Whitespace THEN lstrip(Tail(s)) ELSE s

RECURSIVE rstrip(_)
rstrip(s) ==
    IF Len(s) > 0 /\ s[Len(s)] \in Whitespace
    THEN rstrip(SubSeq(s, 1, Len(s) - 1))
    ELSE s

\* str.strip(): drop the leading and the trailing whitespace
strip(s) == rstrip(lstrip(s))

(***************************************************************************)
(* `for line in file` on a file opened in text mode: the lines of the      *)
(* text, each with its line end, where a line ends at a line feed, at a    *)
(* carriage return or at the two in a row, and every line end is read as   *)
(* a line feed.  line is the part of the current line read so far.         *)
(***************************************************************************)
RECURSIVE readlines(_, _)
readlines(text, line) ==
    IF Len(text) = 0
    THEN IF Len(line) = 0 THEN << >> ELSE << line >>
    ELSE IF Head(text) = 10
    THEN << Append(line, 10) >> \o readlines(Tail(text), << >>)
    ELSE IF Head(text) = 13
    THEN << Append(line, 10) >>
            \o readlines(IF Len(text) > 1 /\ text[2] = 10
                         THEN Tail(Tail(text)) ELSE Tail(text), << >>)
    ELSE readlines(Tail(text), Append(line, Head(text)))

(***************************************************************************)
(* The sample data of init_sample_data.py.                                 *)
(***************************************************************************)
\* "Alice"
Alice == << 65, 108, 105, 99, 101 >>
\* "Bob"
Bob == << 66, 111, 98 >>
\* "Charlie"
Charlie == << 67, 104, 97, 114, 108, 105, 101 >>
\* "David"
David == << 68, 97, 118, 105, 100 >>
\* "Eve"
Eve == << 69, 118, 101 >>
\* "Frank"
Frank == << 70, 114, 97, 110, 107 >>
\* "Grace"
Grace == << 71, 114, 97, 99, 101 >>
\* "Hannah"
Hannah == << 72, 97, 110, 110, 97, 104 >>

\* sample_guests of initialize_database: the rows of the Guest table
SampleGuests ==
    << [name |-> Alice, weight |-> Some(130)],
       [name |-> Bob, weight |-> Some(180)],
       [name |-> Charlie, weight |-> Some(160)],
       [name |-> David, weight |-> Some(200)],
       [name |-> Eve, weight |-> Some(120)],
       [name |-> Frank, weight |-> Some(190)],
       [name |-> Grace, weight |-> Some(140)],
       [name |-> Hannah, weight |-> Some(150)] >>

\* sample_drinks of initialize_database and of create_sample_drink_list
SampleDrinks ==
    << [name |-> "Beer", abv |-> 5, volume_ml |-> 355],
       [name |-> "Wine", abv |-> 12, volume_ml |-> 150],
       [name |-> "Whiskey", abv |-> 40, volume_ml |-> 45],
       [name |-> "Vodka Shot", abv |-> 40, volume_ml |-> 45],
       [name |-> "Margarita", abv |-> 15, volume_ml |-> 200],
       [name |-> "Gin & Tonic", abv |-> 10, volume_ml |-> 240],
       [name |-> "Rum & Coke", abv |-> 12, volume_ml |-> 240],
       [name |-> "Hard Seltzer", abv |-> 5, volume_ml |-> 355] >>

\* the text create_sample_guest_list writes: one name to a line
RECURSIVE written_lines(_, _)
written_lines(rows, n) ==
    IF n = 0 THEN << >>
    ELSE written_lines(rows, n - 1) \o rows[n].name \o << 10 >>

SampleGuestList == written_lines(SampleGuests, Len(SampleGuests))

(***************************************************************************)
(* Bounds of the model and the inputs the requests are drawn from.         *)
(***************************************************************************)
\* rows the Guest table may hold when add_guest adds one (one more than the
\* names of the inputs can fill, so that a second row of the same name
\* would fit); the guest list and the sample data are not limited
MaxGuests == 2
\* rows the DrinkConsumption table may hold
MaxConsumptions == 2
\* index requests that may be between their two commits at one time
MaxIndexing == 1
\* runs of init_sample_data.py that may be under way at one time
MaxScriptRuns == 1
\* requests and script runs that may be in flight at one time
MaxInFlight == 2

\* the instants (minutes, UTC) at which requests arrive, in turn: a drink
\* taken at 0 is three hours old at 180, and at 820 it is old enough for
\* calculate_bac to leave its cap (a beer in a guest of 150 lb gives the cap
\* until 760, 0.135 at 820 and 0 at 880)
ClockInstants == << 0, 180, 820 >>

\* local UTC offsets of the server, in minutes (one west, UTC, one east)
TzOffsets == { -60, 0, 60 }

\* a ~/guest-list the host wrote: "Alice", a blank and a tab on the first
\* line, and an empty second line
GuestListFile == Alice \o << 32, 9, 10, 10 >>

\* the rows of a ~/drinks/drink-list.csv the host wrote
DrinkListCsv ==
    << [name |-> "Beer", abv |-> 5, volume_ml |-> 355],
       [name |-> "Water", abv |-> 0, volume_ml |-> 500],
       [name |-> "Negative ABV", abv |-> -5, volume_ml |-> 100] >>

\* the "name" of an add_guest payload: absent, or a string (the empty one,
\* whitespace only, a name, and a name between a tab and a line end)
NameInputs == { NULL, Some(<< >>), Some(<< 32, 9 >>), Some(Alice),
                Some(<< 9 >> \o Alice \o << 13, 10 >>) }

\* a weight as a request carries it: absent, a number, text that float()
\* rejects, or the text "nan", which float() turns into the value NaN
NoWeight == [kind |-> "none"]
Num(x) == [kind |-> "num", value |-> x]
NotANumber == [kind |-> "text"]
NanText == [kind |-> "nan"]
WeightInputs ==
    { NoWeight, Num(0), Num(-150), Num(150), Num(10), NotANumber, NanText }

\* the value a Float column holds after a commit: SQLite stores NaN as NULL
stored_weight(weight) ==
    IF weight.kind = "num" THEN Some(weight.value) ELSE NULL

\* ids a request may name: the first rows and one that never exists (the
\* Guest table holds at most the names of the sample guest list and the
\* rows of the sample guests, the Drink table at most the rows of the
\* sample drink list, of DrinkListCsv and of the sample drinks)
NoGuestId == 2 * Len(SampleGuests) + 1
NoDrinkId == 2 * Len(SampleDrinks) + Len(DrinkListCsv) + 1
GuestIds == { 1, NoGuestId }
DrinkIds == { 1, 2, 3, NoDrinkId }

\* the guest_id and the drink_id of an add_drink form: absent, or an id
GuestIdInputs == {NULL} \cup { Some(i) : i \in GuestIds }
DrinkIdInputs == {NULL} \cup { Some(i) : i \in DrinkIds }

\* what the operator answers to cleanup.py's question
ConfirmInputs == { "y", "Y", "n" }

\* Guest.query.filter_by(name=name).first() is not None
guest_exists(gs, name) == \E i \in 1..Len(gs) : gs[i].name = name

\* Drink.query.filter_by(name=name).first() is not None
drink_exists(ds, name) == \E i \in 1..Len(ds) : ds[i].name = name

(***************************************************************************)
(* Before the first request: create_app() has created the tables, none of  *)
(* them holds a row, and the host has either written both list files or    *)
(* neither.                                                                *)
(***************************************************************************)
Init ==
    /\ guests = << >>
    /\ drinks = << >>
    /\ consumptions = << >>
    /\ \/ guest_list_file = NULL /\ drink_list_file = NULL
       \/ guest_list_file = Some(GuestListFile)
          /\ drink_list_file = Some(DrinkListCsv)
    /\ db_file = TRUE
    /\ utcnow = ClockInstants[1]
    /\ resp = [op |-> "none"]
    /\ inflight = << >>

(***************************************************************************)
(* GET /guest/ : index.  Creates a guest for every non-empty line of the   *)
(* guest list that names no existing guest, and a drink for every row of   *)
(* the drink list that names no existing drink; a list file that does not  *)
(* exist is skipped.  A lookup sees the rows the request has added before  *)
(* (the session flushes them ahead of every query).                        *)
(***************************************************************************)
RECURSIVE import_guests(_, _)
import_guests(gs, lines) ==
    IF Len(lines) = 0 THEN gs
    ELSE LET name == strip(Head(lines))
         IN  IF Len(name) > 0 /\ ~guest_exists(gs, name)
             THEN import_guests(Append(gs, [name |-> name, weight |-> NULL]),
                                Tail(lines))
             ELSE import_guests(gs, Tail(lines))

RECURSIVE import_drinks(_, _)
import_drinks(ds, rows) ==
    IF Len(rows) = 0 THEN ds
    ELSE IF ~drink_exists(ds, Head(rows).name)
         THEN import_drinks(Append(ds, Head(rows)), Tail(rows))
         ELSE import_drinks(ds, Tail(rows))

\* a sequence without its k-th element
without(reqs, k) == SubSeq(reqs, 1, k - 1) \o SubSeq(reqs, k + 1, Len(reqs))

\* the requests and runs in flight without the k-th
finished(k) == without(inflight, k)

\* how many of the requests and runs in flight are of one kind
in_flight(op) ==
    Cardinality({ k \in 1..Len(inflight) : inflight[k].op = op })

\* index up to the drink list: Guest.query.all(), the guest-list loop, its
\* db.session.commit() and the second Guest.query.all().  The guests are
\* stored and the request has not answered.  Without the tables the first
\* query raises "no such table".  The request in flight is [op, pc,
\* removed]; removed is NULL as long as the database file the session has
\* opened is in its place.
index_guests ==
    /\ IF ~db_file
       THEN /\ resp' = [op |-> "index", status |-> 500]
            /\ UNCHANGED << guests, inflight >>
       ELSE /\ Len(inflight) < MaxInFlight
            /\ in_flight("index") < MaxIndexing
            /\ guests' = IF guest_list_file = NULL THEN guests
                         ELSE import_guests(guests,
                                  readlines(guest_list_file[1], << >>))
            /\ inflight' = Append(inflight,
                   [op |-> "index", pc |-> "drinks", removed |-> NULL])
            /\ resp' = [op |-> "index"]
    /\ UNCHANGED << drinks, consumptions, guest_list_file, drink_list_file,
                   db_file, utcnow >>

\* index from there on: the drink-list loop, its db.session.commit() and
\* the page.  A session left with a removed database file reads the rows
\* the file held and cannot write: with a drink to store the loop raises
\* "attempt to write a readonly database", the except clause prints it,
\* and the page is rendered from a session whose transaction has failed
\* (200 or 500); with nothing to store the page is rendered (200).
index_drinks(k) ==
    /\ k \in 1..Len(inflight)
    /\ inflight[k].op = "index"
    /\ inflight[k].pc = "drinks"
    /\ IF inflight[k].removed = NULL
       THEN /\ drinks' = IF drink_list_file = NULL THEN drinks
                         ELSE import_drinks(drinks, drink_list_file[1])
            /\ resp' = [op |-> "index", status |-> 200]
       ELSE /\ UNCHANGED drinks
            /\ \E status \in {200, 500} :
                  /\ status = 500 =>
                        /\ drink_list_file # NULL
                        /\ import_drinks(inflight[k].removed[1].drinks,
                                         drink_list_file[1])
                              # inflight[k].removed[1].drinks
                  /\ resp' = [op |-> "index", status |-> status]
    /\ inflight' = finished(k)
    /\ UNCHANGED << guests, consumptions, guest_list_file, drink_list_file,
                   db_file, utcnow >>

(***************************************************************************)
(* GET|POST /guest/select/<guest_id> : select_guest.  A POST with a        *)
(* non-empty weight field stores float(weight) without looking at its sign *)
(* or at whether it is NaN; float() of text that is no number raises,      *)
(* which ends the request.  Without the tables get_or_404 raises.          *)
(***************************************************************************)
select_guest(guest_id, method, weight) ==
    /\ IF ~db_file
       THEN /\ resp' = [op |-> "select_guest", status |-> 500]
            /\ UNCHANGED guests
       ELSE IF guest_id > Len(guests)
       THEN /\ resp' = [op |-> "select_guest", status |-> 404]
            /\ UNCHANGED guests
       ELSE IF method = "POST" /\ weight.kind = "text"
       THEN /\ resp' = [op |-> "select_guest", status |-> 500]
            /\ UNCHANGED guests
       ELSE IF method = "POST" /\ weight.kind \in {"num", "nan"}
       THEN /\ guests' = [guests EXCEPT ![guest_id].weight = stored_weight(weight)]
            /\ resp' = [op |-> "select_guest", status |-> 200]
       ELSE /\ resp' = [op |-> "select_guest", status |-> 200]
            /\ UNCHANGED guests
    /\ UNCHANGED << drinks, consumptions, guest_list_file,
                   drink_list_file, db_file, utcnow, inflight >>

(***************************************************************************)
(* POST /guest/add_guest : add_guest.  The checks run in the order of the  *)
(* code: name present, name not empty after strip(), name not taken,       *)
(* then float(weight) and `weight <= 0`, which is False for NaN.  The      *)
(* lookup of the name is the first query: without the tables it raises,    *)
(* and the except clause answers 500.                                      *)
(***************************************************************************)
\* mutant of add_guest: the name is looked up as sent, before strip()
add_guest_raw_lookup(name_field, weight) ==
    /\ IF name_field = NULL
       THEN /\ resp' = [op |-> "add_guest", status |-> 400,
                        error |-> "Guest name is required"]
            /\ UNCHANGED guests
       ELSE LET name == strip(name_field[1])
            IN  IF Len(name) = 0
                THEN /\ resp' = [op |-> "add_guest", status |-> 400,
                                 error |-> "Guest name cannot be empty"]
                     /\ UNCHANGED guests
                ELSE IF ~db_file
                THEN /\ resp' = [op |-> "add_guest", status |-> 500,
                                 error |-> "no such table: guest"]
                     /\ UNCHANGED guests
                ELSE IF guest_exists(guests, name_field[1])
                THEN /\ resp' = [op |-> "add_guest", status |-> 400,
                                 error |-> "already exists"]
                     /\ UNCHANGED guests
                ELSE IF weight.kind = "text"
                THEN /\ resp' = [op |-> "add_guest", status |-> 400,
                                 error |-> "Invalid weight format"]
                     /\ UNCHANGED guests
                ELSE IF weight.kind = "num" /\ weight.value <= 0
                THEN /\ resp' = [op |-> "add_guest", status |-> 400,
                                 error |-> "Weight must be positive"]
                     /\ UNCHANGED guests
                ELSE /\ Len(guests) < MaxGuests
                     /\ guests' = Append(guests,
                            [name |-> name, weight |-> stored_weight(weight)])
                     /\ resp' = [op |-> "add_guest", status |-> 200,
                                 id |-> Len(guests) + 1]
    /\ UNCHANGED << drinks, consumptions, guest_list_file,
                   drink_list_file, db_file, utcnow, inflight >>

add_guest(name_field, weight) ==
    /\ IF name_field = NULL
       THEN /\ resp' = [op |-> "add_guest", status |-> 400,
                        error |-> "Guest name is required"]
            /\ UNCHANGED guests
       ELSE LET name == strip(name_field[1])
            IN  IF Len(name) = 0
                THEN /\ resp' = [op |-> "add_guest", status |-> 400,
                                 error |-> "Guest name cannot be empty"]
                     /\ UNCHANGED guests
                ELSE IF ~db_file
                THEN /\ resp' = [op |-> "add_guest", status |-> 500,
                                 error |-> "no such table: guest"]
                     /\ UNCHANGED guests
                ELSE IF guest_exists(guests, name)
                THEN /\ resp' = [op |-> "add_guest", status |-> 400,
                                 error |-> "already exists"]
                     /\ UNCHANGED guests
                ELSE IF weight.kind = "text"
                THEN /\ resp' = [op |-> "add_guest", status |-> 400,
                                 error |-> "Invalid weight format"]
                     /\ UNCHANGED guests
                ELSE IF weight.kind = "num" /\ weight.value <= 0
                THEN /\ resp' = [op |-> "add_guest", status |-> 400,
                                 error |-> "Weight must be positive"]
                     /\ UNCHANGED guests
                ELSE /\ Len(guests) < MaxGuests
                     /\ guests' = Append(guests,
                            [name |-> name, weight |-> stored_weight(weight)])
                     /\ resp' = [op |-> "add_guest", status |-> 200,
                                 id |-> Len(guests) + 1]
    /\ UNCHANGED << drinks, consumptions, guest_list_file,
                   drink_list_file, db_file, utcnow, inflight >>

(***************************************************************************)
(* POST /guest/add_drink : add_drink.  guest_id and drink_id are NULL when *)
(* the form lacks them.  The new row is stamped datetime.utcnow().         *)
(* Without the tables Guest.query.get raises, and the except clause        *)
(* answers 500.                                                            *)
(***************************************************************************)
\* mutant of add_drink: the new row replaces the guest's earlier rows
add_drink_replacing(guest_id, drink_id) ==
    /\ IF guest_id = NULL \/ drink_id = NULL
       THEN /\ resp' = [op |-> "add_drink", status |-> 400]
            /\ UNCHANGED consumptions
       ELSE IF ~db_file
       THEN /\ resp' = [op |-> "add_drink", status |-> 500]
            /\ UNCHANGED consumptions
       ELSE IF guest_id[1] > Len(guests) \/ drink_id[1] > Len(drinks)
       THEN /\ resp' = [op |-> "add_drink", status |-> 404]
            /\ UNCHANGED consumptions
       ELSE /\ Len(consumptions) < MaxConsumptions
            /\ consumptions' = Append(SelectSeq(consumptions,
                   LAMBDA c : c.guest_id # guest_id[1]),
                   [guest_id |-> guest_id[1], drink_id |-> drink_id[1],
                    timestamp |-> utcnow])
            /\ resp' = [op |-> "add_drink", status |-> 200,
                        id |-> Len(consumptions) + 1]
    /\ UNCHANGED << guests, drinks, guest_list_file,
                   drink_list_file, db_file, utcnow, inflight >>

\* mutant of add_drink: the guest and the drink are not looked up
add_drink_unchecked(guest_id, drink_id) ==
    /\ IF guest_id = NULL \/ drink_id = NULL
       THEN /\ resp' = [op |-> "add_drink", status |-> 400]
            /\ UNCHANGED consumptions
       ELSE IF ~db_file
       THEN /\ resp' = [op |-> "add_drink", status |-> 500]
            /\ UNCHANGED consumptions
       ELSE IF FALSE
       THEN /\ resp' = [op |-> "add_drink", status |-> 404]
            /\ UNCHANGED consumptions
       ELSE /\ Len(consumptions) < MaxConsumptions
            /\ consumptions' = Append(consumptions,
                   [guest_id |-> guest_id[1], drink_id |-> drink_id[1],
                    timestamp |-> utcnow])
            /\ resp' = [op |-> "add_drink", status |-> 200,
                        id |-> Len(consumptions) + 1]
    /\ UNCHANGED << guests, drinks, guest_list_file,
                   drink_list_file, db_file, utcnow, inflight >>

add_drink(guest_id, drink_id) ==
    /\ IF guest_id = NULL \/ drink_id = NULL
       THEN /\ resp' = [op |-> "add_drink", status |-> 400]
            /\ UNCHANGED consumptions
       ELSE IF ~db_file
       THEN /\ resp' = [op |-> "add_drink", status |-> 500]
            /\ UNCHANGED consumptions
       ELSE IF guest_id[1] > Len(guests) \/ drink_id[1] > Len(drinks)
       THEN /\ resp' = [op |-> "add_drink", status |-> 404]
            /\ UNCHANGED consumptions
       ELSE /\ Len(consumptions) < MaxConsumptions
            /\ consumptions' = Append(consumptions,
                   [guest_id |-> guest_id[1], drink_id |-> drink_id[1],
                    timestamp |-> utcnow])
            /\ resp' = [op |-> "add_drink", status |-> 200,
                        id |-> Len(consumptions) + 1]
    /\ UNCHANGED << guests, drinks, guest_list_file,
                   drink_list_file, db_file, utcnow, inflight >>

\* GET /host/ : dashboard.  Its Guest.query.all() raises without the tables.
dashboard ==
    /\ resp' = [op |-> "dashboard", status |-> IF db_file THEN 200 ELSE 500]
    /\ UNCHANGED << guests, drinks, consumptions, guest_list_file,
                   drink_list_file, db_file, utcnow, inflight >>

(***************************************************************************)
(* The host's read-only requests.  None of them writes a table, and every  *)
(* request that does write one replaces resp, so resp records the request, *)
(* its status and the clock reading it took, and the payload is computed   *)
(* from the tables and that reading (guest_data_response,                  *)
(* bac_chart_response, group_bac_chart_built).                             *)
(*                                                                         *)
(* GET /host/guest_data : guest_data.  calculate_bac reads the local       *)
(* clock, datetime.now().  Without the tables Guest.query.all() raises     *)
(* before any clock is read.                                               *)
(***************************************************************************)
\* datetime.now() on a server whose local time is offset minutes ahead of UTC
local_now(offset) == utcnow + offset

\* mutant of guest_data: a weight that counts as missing is written back as NULL
guest_data_clearing(offset) ==
    /\ resp' = IF ~db_file THEN [op |-> "guest_data", status |-> 500]
               ELSE [op |-> "guest_data", status |-> 200,
                     at |-> local_now(offset)]
    /\ guests' = [ i \in 1..Len(guests) |->
                     [guests[i] EXCEPT !.weight =
                         IF no_weight(@) THEN NULL ELSE @] ]
    /\ UNCHANGED << drinks, consumptions, guest_list_file,
                   drink_list_file, db_file, utcnow, inflight >>

guest_data(offset) ==
    /\ resp' = IF ~db_file THEN [op |-> "guest_data", status |-> 500]
               ELSE [op |-> "guest_data", status |-> 200,
                     at |-> local_now(offset)]
    /\ UNCHANGED << guests, drinks, consumptions, guest_list_file,
                   drink_list_file, db_file, utcnow, inflight >>

\* the JSON list of the guest_data request recorded in resp
guest_data_response ==
    [ i \in 1..Len(guests) |->
        [id |-> i,
         weight |-> guests[i].weight,
         total_drinks |-> Len(guest_drinks(i)),
         bac |-> calculate_bac(guests[i].weight, guest_drinks(i), resp.at)] ]

(***************************************************************************)
(* GET /host/bac_chart/<guest_id> : bac_chart.                             *)
(***************************************************************************)
abs(x) == IF x < 0 THEN 0 - x ELSE x

\* min(range(len(timestamps)), key=...) from index i on, best being the
\* index min() holds so far: it is replaced by an index of a smaller key only
RECURSIVE closest_from(_, _, _, _)
closest_from(timestamps, t, best, i) ==
    IF i > Len(timestamps) THEN best
    ELSE closest_from(timestamps, t,
                      IF abs(timestamps[i] - t) < abs(timestamps[best] - t)
                      THEN i ELSE best,
                      i + 1)

\* closest_idx = min(range(len(timestamps)),
\*                   key=lambda i: abs((timestamps[i] - t).total_seconds()))
closest_idx(timestamps, t) == closest_from(timestamps, t, 1, 2)

\* the markers of bac_chart: one for each drink with timestamp >= start_time,
\* at the height of the sample closest to it
drink_markers(cons, timestamps, values, start_time) ==
    LET shown == SelectSeq(cons, LAMBDA c : c.timestamp >= start_time)
    IN  [ k \in 1..Len(shown) |->
            [timestamp |-> shown[k].timestamp,
             drink_id |-> shown[k].drink_id,
             y |-> values[closest_idx(timestamps, shown[k].timestamp)]] ]

\* without the tables get_or_404 raises
bac_chart(guest_id) ==
    /\ IF ~db_file
       THEN resp' = [op |-> "bac_chart", status |-> 500]
       ELSE IF guest_id > Len(guests)
       THEN resp' = [op |-> "bac_chart", status |-> 404]
       ELSE IF no_weight(guests[guest_id].weight)
       THEN resp' = [op |-> "bac_chart", status |-> 400, guest_id |-> guest_id]
       ELSE resp' = [op |-> "bac_chart", status |-> 200, guest_id |-> guest_id,
                     now |-> utcnow]
    /\ UNCHANGED << guests, drinks, consumptions, guest_list_file,
                   drink_list_file, db_file, utcnow, inflight >>

\* the figure of the bac_chart request recorded in resp (status 200)
bac_chart_response ==
    LET timestamps == chart_timestamps(resp.now)
        values == bac_values(guests[resp.guest_id].weight[1],
                             guest_drinks(resp.guest_id), timestamps)
    IN  [timestamps |-> timestamps,
         bac_values |-> values,
         drinks |-> drink_markers(guest_drinks(resp.guest_id), timestamps,
                                  values, resp.now - HISTORY_HOURS * 60)]

(***************************************************************************)
(* GET /host/group_bac_chart : group_bac_chart.  The function loads the    *)
(* guests, and in the test `g.weight and g.weight > 0 and g.drinks` the    *)
(* drinks of every guest whose weight passes; it then reads the clock,     *)
(* builds the timestamps and, when there are valid guests, the bac_values  *)
(* of the first of them from the drinks it has loaded; it then calls       *)
(* format_local_time, a name that host/routes.py binds only inside         *)
(* bac_chart, so the request ends in a NameError.  resp records the clock  *)
(* reading and the rows loaded, [guest_id, weight, drinks] for each guest  *)
(* whose drinks were loaded, and group_bac_chart_built is what was built   *)
(* from them before that point.  Without the tables Guest.query.all()      *)
(* raises first.                                                           *)
(***************************************************************************)
\* what `g.weight and g.weight > 0 and g.drinks` loads for guest i of gs:
\* nothing when the weight fails the test
loaded_drinks(gs, i) ==
    IF no_weight(gs[i].weight) THEN << >>
    ELSE << [guest_id |-> i, weight |-> gs[i].weight[1],
             drinks |-> guest_drinks(i)] >>

\* the rows loaded for the first n guests
RECURSIVE loaded_upto(_, _)
loaded_upto(gs, n) ==
    IF n = 0 THEN << >> ELSE loaded_upto(gs, n - 1) \o loaded_drinks(gs, n)

\* valid_guests = [g for g in guests if g.weight and g.weight > 0 and g.drinks]
valid_guests_of(loaded) == SelectSeq(loaded, LAMBDA g : Len(g.drinks) > 0)

\* the valid guests of the group_bac_chart request recorded in resp
valid_guests == valid_guests_of(resp.loaded)

group_bac_chart ==
    /\ resp' = IF ~db_file THEN [op |-> "group_bac_chart", status |-> 500]
               ELSE [op |-> "group_bac_chart", status |-> 500,
                     now |-> utcnow,
                     loaded |-> loaded_upto(guests, Len(guests))]
    /\ UNCHANGED << guests, drinks, consumptions, guest_list_file,
                   drink_list_file, db_file, utcnow, inflight >>

\* mutant of group_relevant: an event at the sample instant is dropped
group_relevant_before(cons, timestamp) ==
    SelectSeq(cons, LAMBDA c : c.timestamp < timestamp)

\* [c for c in guest.drinks if c.timestamp <= timestamp], in the loop of
\* group_bac_chart
group_relevant(cons, timestamp) ==
    SelectSeq(cons, LAMBDA c : c.timestamp <= timestamp)

\* total_alcohol_grams after the first n rounds of the inner loop of
\* group_bac_chart
RECURSIVE group_alcohol_grams(_, _)
group_alcohol_grams(cons, n) ==
    IF n = 0 THEN FZero
    ELSE FAdd(group_alcohol_grams(cons, n - 1),
              FDiv(FMul(FMul(Float(drinks[cons[n].drink_id].abv),
                             Float(drinks[cons[n].drink_id].volume_ml)),
                        ETHANOL_DENSITY_G_PER_ML),
                   Float(100)))

\* min(relevant_consumptions, key=lambda c: c.timestamp).timestamp from row
\* n on, best being the row min() holds so far
RECURSIVE group_earliest(_, _, _)
group_earliest(cons, best, n) ==
    IF n > Len(cons) THEN cons[best].timestamp
    ELSE group_earliest(cons,
                        IF cons[n].timestamp < cons[best].timestamp
                        THEN n ELSE best,
                        n + 1)

\* one round of the loop over timestamps in group_bac_chart
group_bac_sample(weight, cons, timestamp) ==
    LET relevant == group_relevant(cons, timestamp)
    IN  IF Len(relevant) = 0 THEN 0
        ELSE LET weight_grams == FMul(FMul(Float(weight), LBS_TO_KG_CONVERSION),
                                      Float(1000))
                 raw == FMul(FDiv(group_alcohol_grams(relevant, Len(relevant)),
                                  FMul(weight_grams, AVERAGE_GENDER_CONSTANT)),
                             Float(100))
                 total_hours_elapsed ==
                     FDiv(Float((timestamp - group_earliest(relevant, 1, 2)) * 60),
                          Float(3600))
                 metabolized_bac == FMul(BAC_METABOLISM_RATE, total_hours_elapsed)
                 bac == max(FZero, FSub(raw, metabolized_bac))
             IN  round(min(bac, BAC_DISPLAY_CAP), BAC_DECIMAL_PRECISION)

\* the bac_values group_bac_chart computes for one guest
group_bac_values(weight, cons, timestamps) ==
    [ i \in 1..Len(timestamps) |-> group_bac_sample(weight, cons, timestamps[i]) ]

\* what group_bac_chart has built when it fails: the timestamps and, when
\* there are valid guests, the series of the first
group_bac_chart_built ==
    LET timestamps == chart_timestamps(resp.now)
    IN  [timestamps |-> timestamps,
         traces |-> IF Len(valid_guests) = 0 THEN << >>
                    ELSE << [guest_id |-> valid_guests[1].guest_id,
                             bac_values |->
                                group_bac_values(valid_guests[1].weight,
                                                 valid_guests[1].drinks,
                                                 timestamps)] >>]

\* time passes: the clock moves on to the next instant
Tick ==
    /\ \E i \in 1..(Len(ClockInstants) - 1) :
          /\ utcnow = ClockInstants[i]
          /\ utcnow' = ClockInstants[i + 1]
    /\ UNCHANGED << guests, drinks, consumptions, guest_list_file,
                   drink_list_file, db_file, resp, inflight >>

Next ==
    \/ index_guests
    \/ \E k \in 1..MaxInFlight : index_drinks(k)
    \/ \E g \in GuestIds : select_guest(g, "GET", NoWeight)
    \/ \E g \in GuestIds, w \in WeightInputs : select_guest(g, "POST", w)
    \/ \E n \in NameInputs, w \in WeightInputs : add_guest(n, w)
    \/ \E g \in GuestIdInputs, d \in DrinkIdInputs : add_drink(g, d)
    \/ dashboard
    \/ \E z \in TzOffsets : guest_data(z)
    \/ \E g \in GuestIds : bac_chart(g)
    \/ group_bac_chart
    \/ Tick

\* the two servers from their start on
Spec == Init /\ [][Next]_vars

(***************************************************************************)
(* The scripts.  The operator runs init_sample_data.py and cleanup.py      *)
(* beside the servers; neither script takes a lock or waits for a request, *)
(* and the requests take their steps between the statements of a script.   *)
(*                                                                         *)
(* python init_sample_data.py (setup.py runs it always, run_dev.py when a  *)
(* list file is missing):                                                  *)
(*   - create_sample_guest_list() writes ~/guest-list unless it exists;    *)
(*   - create_sample_drink_list() writes the drink list unless it exists;  *)
(*   - create_app() and db.create_all() create the tables that are         *)
(*     missing;                                                            *)
(*   - it counts the rows of the Guest and of the Drink table and ends     *)
(*     when either holds a row;                                            *)
(*   - it adds the sample guests, with their weights, and the sample       *)
(*     drinks and commits; the rows follow whatever rows were committed    *)
(*     since the count.                                                    *)
(* A run under way is [op, pc] in inflight, ahead of the requests, and     *)
(* [op, pc, removed] once it has counted: see cleanup_database.            *)
(***************************************************************************)
\* create_sample_guest_list()
create_sample_guest_list ==
    /\ Len(inflight) < MaxInFlight
    /\ in_flight("init_sample_data") < MaxScriptRuns
    /\ guest_list_file' = IF guest_list_file = NULL
                          THEN Some(SampleGuestList) ELSE guest_list_file
    /\ inflight' = << [op |-> "init_sample_data", pc |-> "drink_list"] >>
                      \o inflight
    /\ resp' = [op |-> "init_sample_data"]
    /\ UNCHANGED << guests, drinks, consumptions, drink_list_file, db_file,
                   utcnow >>

\* create_sample_drink_list()
create_sample_drink_list(k) ==
    /\ k \in 1..Len(inflight)
    /\ inflight[k] = [op |-> "init_sample_data", pc |-> "drink_list"]
    /\ drink_list_file' = IF drink_list_file = NULL
                          THEN Some(SampleDrinks) ELSE drink_list_file
    /\ inflight' = [inflight EXCEPT ![k].pc = "create_app"]
    /\ resp' = [op |-> "init_sample_data"]
    /\ UNCHANGED << guests, drinks, consumptions, guest_list_file, db_file,
                   utcnow >>

\* initialize_database() up to db.create_all(): create_app() creates the
\* tables that are missing
init_sample_create(k) ==
    /\ k \in 1..Len(inflight)
    /\ inflight[k] = [op |-> "init_sample_data", pc |-> "create_app"]
    /\ db_file' = TRUE
    /\ inflight' = [inflight EXCEPT ![k].pc = "count"]
    /\ resp' = [op |-> "init_sample_data"]
    /\ UNCHANGED << guests, drinks, consumptions, guest_list_file,
                   drink_list_file, utcnow >>

\* `Guest.query.count() > 0 or Drink.query.count() > 0`.  Without the
\* tables (cleanup.py has removed the file since db.create_all()) the
\* count raises and the run ends.
init_sample_count(k) ==
    /\ k \in 1..Len(inflight)
    /\ inflight[k] = [op |-> "init_sample_data", pc |-> "count"]
    /\ inflight' = IF ~db_file \/ Len(guests) > 0 \/ Len(drinks) > 0
                   THEN finished(k)
                   ELSE [inflight EXCEPT ![k] =
                            [op |-> "init_sample_data", pc |-> "commit",
                             removed |-> NULL]]
    /\ resp' = [op |-> "init_sample_data"]
    /\ UNCHANGED << guests, drinks, consumptions, guest_list_file,
                   drink_list_file, db_file, utcnow >>

\* initialize_database() from there on: the rows and db.session.commit().
\* A run whose database file was removed after its count cannot write: it
\* ends with "attempt to write a readonly database" and stores nothing.
init_sample_commit(k) ==
    /\ k \in 1..Len(inflight)
    /\ inflight[k].op = "init_sample_data"
    /\ inflight[k].pc = "commit"
    /\ IF inflight[k].removed = NULL
       THEN /\ guests' = guests \o SampleGuests
            /\ drinks' = drinks \o SampleDrinks
       ELSE UNCHANGED << guests, drinks >>
    /\ inflight' = finished(k)
    /\ resp' = [op |-> "init_sample_data"]
    /\ UNCHANGED << consumptions, guest_list_file, drink_list_file, db_file,
                   utcnow >>

(***************************************************************************)
(* python cleanup.py.  Unless the answer is "y" in either case nothing     *)
(* happens; else the script removes ~/guest-list, then the directory       *)
(* ~/drinks, then the database file, each when it exists, and last the     *)
(* __pycache__ directories, which are no state of the servers.  It stops   *)
(* no server and does not wait for the requests in flight.  A run under    *)
(* way is [op, pc] in inflight.                                            *)
(***************************************************************************)
\* the question, and os.remove(guest_list_path)
cleanup(confirm) ==
    /\ IF confirm \in { "y", "Y" }
       THEN /\ Len(inflight) < MaxInFlight
            /\ in_flight("cleanup") < MaxScriptRuns
            /\ guest_list_file' = NULL
            /\ inflight' = << [op |-> "cleanup", pc |-> "drinks"] >>
                              \o inflight
       ELSE UNCHANGED << guest_list_file, inflight >>
    /\ resp' = [op |-> "cleanup"]
    /\ UNCHANGED << guests, drinks, consumptions, drink_list_file, db_file,
                   utcnow >>

\* shutil.rmtree(drinks_dir)
cleanup_drinks(k) ==
    /\ k \in 1..Len(inflight)
    /\ inflight[k] = [op |-> "cleanup", pc |-> "drinks"]
    /\ drink_list_file' = NULL
    /\ inflight' = [inflight EXCEPT ![k].pc = "database"]
    /\ resp' = [op |-> "cleanup"]
    /\ UNCHANGED << guests, drinks, consumptions, guest_list_file, db_file,
                   utcnow >>

\* the requests and runs in flight once the database file is removed.  A
\* session that has opened the file keeps it: it reads the rows the file
\* held at the removal, [guests, drinks] in the field removed, and what it
\* writes from then on reaches no table.  A session left with an earlier
\* file stays with that one.
orphaned ==
    [ j \in 1..Len(inflight) |->
        IF "removed" \in DOMAIN inflight[j] /\ inflight[j].removed = NULL
        THEN [inflight[j] EXCEPT
                 !.removed = Some([guests |-> guests, drinks |-> drinks])]
        ELSE inflight[j] ]

\* os.remove(db_file), and the end of the run.  The tables are gone with
\* the file: every query of a new session fails until db.create_all() has
\* run again, and the tables are then found without rows.
cleanup_database(k) ==
    /\ k \in 1..Len(inflight)
    /\ inflight[k] = [op |-> "cleanup", pc |-> "database"]
    /\ db_file' = FALSE
    /\ guests' = << >>
    /\ drinks' = << >>
    /\ consumptions' = << >>
    /\ inflight' = without(IF db_file THEN orphaned ELSE inflight, k)
    /\ resp' = [op |-> "cleanup"]
    /\ UNCHANGED << guest_list_file, drink_list_file, utcnow >>

\* the drink_id of an add_drink form beside the scripts: absent, the first
\* drink, or one that does not exist
FirstDrinkInputs == { NULL, Some(1), Some(NoDrinkId) }

\* the weights of a select_guest form beside the scripts
ScriptWeightInputs == { Num(-150), Num(150), NotANumber }

NextOperator ==
    \/ create_sample_guest_list
    \/ \E k \in 1..MaxInFlight : create_sample_drink_list(k)
    \/ \E k \in 1..MaxInFlight : init_sample_create(k)
    \/ \E k \in 1..MaxInFlight : init_sample_count(k)
    \/ \E k \in 1..MaxInFlight : init_sample_commit(k)
    \/ \E c \in ConfirmInputs : cleanup(c)
    \/ \E k \in 1..MaxInFlight : cleanup_drinks(k)
    \/ \E k \in 1..MaxInFlight : cleanup_database(k)
    \/ index_guests
    \/ \E k \in 1..MaxInFlight : index_drinks(k)
    \/ \E g \in GuestIds : select_guest(g, "GET", NoWeight)
    \/ \E g \in GuestIds, w \in ScriptWeightInputs : select_guest(g, "POST", w)
    \/ \E n \in NameInputs, w \in ScriptWeightInputs : add_guest(n, w)
    \/ \E g \in GuestIdInputs, d \in FirstDrinkInputs : add_drink(g, d)
    \/ dashboard
    \/ \E z \in TzOffsets : guest_data(z)
    \/ \E g \in GuestIds : bac_chart(g)
    \/ group_bac_chart

\* the servers and the scripts.  The clock stands still here: no script
\* reads it, and what the requests do as time passes is in Spec.
SpecOperator == Init /\ [][NextOperator]_vars

\* what the servers find when they start after python setup.py, which runs
\* init_sample_data.py on an empty database: the sample list files, the
\* sample guests and the sample drinks
InitSetup ==
    /\ guests = SampleGuests
    /\ drinks = SampleDrinks
    /\ consumptions = << >>
    /\ guest_list_file = Some(SampleGuestList)
    /\ drink_list_file = Some(SampleDrinks)
    /\ db_file = TRUE
    /\ utcnow = ClockInstants[1]
    /\ resp = [op |-> "none"]
    /\ inflight = << >>

(***************************************************************************)
(* Concurrent requests.  The guest and the host server are separate        *)
(* processes on one SQLite file and each serves its requests in threads,   *)
(* so the steps of two requests interleave.  Spec interleaves them at the  *)
(* commits; here add_guest and index, the requests that look a row up and  *)
(* insert it when it is missing, are split at every point where they touch *)
(* the database:                                                           *)
(*   - a query reads the committed rows and the rows its own session has   *)
(*     written; the rows of another session appear when that one commits;  *)
(*   - db.session.add() keeps the new row in the session (pending); the    *)
(*     next query of the session, or its commit, writes the pending rows   *)
(*     (flushed), and from its first write to its commit a session holds   *)
(*     the write lock of the database;                                     *)
(*   - a session that has to write while another one holds the lock waits, *)
(*     and gives up when sqlite3's timeout expires first;                  *)
(*   - a session left with a removed database file (see orphaned) reads    *)
(*     the rows that file held; it goes on writing to that file when it    *)
(*     held the write lock at the removal, up to its commit, and cannot    *)
(*     write otherwise.  It neither waits for the sessions of the file in  *)
(*     place nor do they wait for it.                                      *)
(* A request in flight is [op, pc, todo, pending, flushed, removed]: todo  *)
(* holds the lines or rows its loop has yet to handle.  cleanup.py opens   *)
(* no session.  The servers start on an empty database or after            *)
(* setup.py; the runs of init_sample_data.py beside the requests are those *)
(* of SpecOperator.                                                        *)
(***************************************************************************)
\* the k-th of the requests and runs in flight is a request with a session
in_session(k) == inflight[k].op \in { "index", "add_guest" }

\* no request other than the k-th holds the write lock of the database
\* file in place
lock_free(k) ==
    \A j \in 1..Len(inflight) :
        (j # k /\ in_session(j) /\ inflight[j].removed = NULL)
            => Len(inflight[j].flushed) = 0

\* the session of the k-th request can write
can_write(k) ==
    IF inflight[k].removed = NULL THEN lock_free(k)
    ELSE Len(inflight[k].flushed) > 0

\* the committed rows the session of the k-th request reads
committed(k) ==
    IF inflight[k].removed = NULL THEN [guests |-> guests, drinks |-> drinks]
    ELSE inflight[k].removed[1]

\* add_guest up to db.session.add(new_guest)
add_guest_check(name_field, weight) ==
    /\ IF name_field = NULL
       THEN /\ resp' = [op |-> "add_guest", status |-> 400,
                        error |-> "Guest name is required"]
            /\ UNCHANGED inflight
       ELSE LET name == strip(name_field[1])
            IN  IF Len(name) = 0
                THEN /\ resp' = [op |-> "add_guest", status |-> 400,
                                 error |-> "Guest name cannot be empty"]
                     /\ UNCHANGED inflight
                ELSE IF ~db_file
                THEN /\ resp' = [op |-> "add_guest", status |-> 500,
                                 error |-> "no such table: guest"]
                     /\ UNCHANGED inflight
                ELSE IF guest_exists(guests, name)
                THEN /\ resp' = [op |-> "add_guest", status |-> 400,
                                 error |-> "already exists"]
                     /\ UNCHANGED inflight
                ELSE IF weight.kind = "text"
                THEN /\ resp' = [op |-> "add_guest", status |-> 400,
                                 error |-> "Invalid weight format"]
                     /\ UNCHANGED inflight
                ELSE IF weight.kind = "num" /\ weight.value <= 0
                THEN /\ resp' = [op |-> "add_guest", status |-> 400,
                                 error |-> "Weight must be positive"]
                     /\ UNCHANGED inflight
                ELSE /\ Len(inflight) < MaxInFlight
                     /\ inflight' = Append(inflight,
                            [op |-> "add_guest", pc |-> "commit", todo |-> << >>,
                             pending |-> << [name |-> name,
                                             weight |-> stored_weight(weight)] >>,
                             flushed |-> << >>, removed |-> NULL])
                     /\ UNCHANGED resp
    /\ UNCHANGED << guests, drinks, consumptions, guest_list_file,
                   drink_list_file, db_file, utcnow >>

\* db.session.commit() of add_guest, and its response
add_guest_commit(k) ==
    /\ k \in 1..Len(inflight)
    /\ inflight[k].op = "add_guest"
    /\ inflight[k].removed = NULL
    /\ lock_free(k)
    /\ Len(guests) < MaxGuests
    /\ guests' = guests \o inflight[k].pending
    /\ resp' = [op |-> "add_guest", status |-> 200, id |-> Len(guests) + 1]
    /\ inflight' = finished(k)
    /\ UNCHANGED << drinks, consumptions, guest_list_file, drink_list_file,
                   db_file, utcnow >>

\* index up to the first line of the guest list: Guest.query.all(), which
\* raises without the tables
index_begin ==
    /\ IF ~db_file
       THEN /\ resp' = [op |-> "index", status |-> 500]
            /\ UNCHANGED inflight
       ELSE /\ Len(inflight) < MaxInFlight
            /\ inflight' = Append(inflight,
                   [op |-> "index", pc |-> "guests",
                    todo |-> IF guest_list_file = NULL THEN << >>
                             ELSE readlines(guest_list_file[1], << >>),
                    pending |-> << >>, flushed |-> << >>, removed |-> NULL])
            /\ UNCHANGED resp
    /\ UNCHANGED << guests, drinks, consumptions, guest_list_file,
                   drink_list_file, db_file, utcnow >>

\* one round of the guest-list loop
index_guest_line(k) ==
    /\ k \in 1..Len(inflight)
    /\ inflight[k].op = "index"
    /\ inflight[k].pc = "guests"
    /\ Len(inflight[k].todo) > 0
    /\ LET r    == inflight[k]
           name == strip(Head(r.todo))
       IN  IF Len(name) = 0
           THEN inflight' = [inflight EXCEPT ![k].todo = Tail(@)]
           ELSE /\ Len(r.pending) > 0 => can_write(k)
                /\ LET flushed == r.flushed \o r.pending
                   IN  inflight' = [inflight EXCEPT ![k] =
                          [r EXCEPT !.todo = Tail(@),
                                    !.flushed = flushed,
                                    !.pending =
                                        IF guest_exists(committed(k).guests
                                                           \o flushed, name)
                                        THEN << >>
                                        ELSE << [name |-> name,
                                                 weight |-> NULL] >>]]
    /\ UNCHANGED << guests, drinks, consumptions, guest_list_file,
                   drink_list_file, db_file, utcnow, resp >>

\* the db.session.commit() after the guest-list loop, up to the first row
\* of the drink list.  What a session left with a removed file commits is
\* in no table.
index_guest_commit(k) ==
    /\ k \in 1..Len(inflight)
    /\ inflight[k].op = "index"
    /\ inflight[k].pc = "guests"
    /\ Len(inflight[k].todo) = 0
    /\ Len(inflight[k].pending) > 0 => can_write(k)
    /\ guests' = IF inflight[k].removed = NULL
                 THEN guests \o inflight[k].flushed \o inflight[k].pending
                 ELSE guests
    /\ inflight' = [inflight EXCEPT ![k] =
           [op |-> "index", pc |-> "drinks",
            todo |-> IF drink_list_file = NULL THEN << >> ELSE drink_list_file[1],
            pending |-> << >>, flushed |-> << >>,
            removed |-> inflight[k].removed]]
    /\ UNCHANGED << drinks, consumptions, guest_list_file, drink_list_file,
                   db_file, utcnow, resp >>

\* one round of the drink-list loop
index_drink_row(k) ==
    /\ k \in 1..Len(inflight)
    /\ inflight[k].op = "index"
    /\ inflight[k].pc = "drinks"
    /\ Len(inflight[k].todo) > 0
    /\ Len(inflight[k].pending) > 0 => can_write(k)
    /\ LET r       == inflight[k]
           flushed == r.flushed \o r.pending
       IN  inflight' = [inflight EXCEPT ![k] =
              [r EXCEPT !.todo = Tail(@),
                        !.flushed = flushed,
                        !.pending =
                            IF drink_exists(committed(k).drinks \o flushed,
                                            Head(r.todo).name)
                            THEN << >>
                            ELSE << Head(r.todo) >>]]
    /\ UNCHANGED << guests, drinks, consumptions, guest_list_file,
                   drink_list_file, db_file, utcnow, resp >>

\* the db.session.commit() after the drink-list loop, and the page
index_drink_commit(k) ==
    /\ k \in 1..Len(inflight)
    /\ inflight[k].op = "index"
    /\ inflight[k].pc = "drinks"
    /\ Len(inflight[k].todo) = 0
    /\ Len(inflight[k].pending) > 0 => can_write(k)
    /\ drinks' = IF inflight[k].removed = NULL
                 THEN drinks \o inflight[k].flushed \o inflight[k].pending
                 ELSE drinks
    /\ resp' = [op |-> "index", status |-> 200]
    /\ inflight' = finished(k)
    /\ UNCHANGED << guests, consumptions, guest_list_file, drink_list_file,
                   db_file, utcnow >>

(***************************************************************************)
(* The k-th request has rows to write, another request holds the write     *)
(* lock and the timeout expires: sqlite3 raises "database is locked".      *)
(* add_guest catches it, rolls back and answers 500; index does not catch  *)
(* it in the guest-list loop (500) and catches it in the drink-list loop,  *)
(* after which the page is rendered from a session whose transaction has   *)
(* failed (200 or 500).  Nothing the request had pending is written.       *)
(***************************************************************************)
lock_timeout(k, status) ==
    /\ k \in 1..Len(inflight)
    /\ in_session(k)
    /\ inflight[k].removed = NULL
    /\ Len(inflight[k].pending) > 0
    /\ ~lock_free(k)
    /\ status = 200 => inflight[k].op = "index" /\ inflight[k].pc = "drinks"
    /\ resp' = [op |-> inflight[k].op, status |-> status]
    /\ inflight' = finished(k)
    /\ UNCHANGED << guests, drinks, consumptions, guest_list_file,
                   drink_list_file, db_file, utcnow >>

(***************************************************************************)
(* The k-th request has rows to write and its session is left with a       *)
(* removed database file.  Without the write lock at the removal sqlite3   *)
(* raises "attempt to write a readonly database".  With it the session     *)
(* writes on, unless a connection to the path has deleted its rollback     *)
(* journal since, which any later request's connection does: sqlite3 then  *)
(* raises "disk I/O error".  The request answers as it does to "database   *)
(* is locked", and nothing it had to write is in a table.                  *)
(***************************************************************************)
session_removed(k, status) ==
    /\ k \in 1..Len(inflight)
    /\ in_session(k)
    /\ inflight[k].removed # NULL
    /\ Len(inflight[k].pending) + Len(inflight[k].flushed) > 0
    /\ status = 200 => inflight[k].op = "index" /\ inflight[k].pc = "drinks"
    /\ resp' = [op |-> inflight[k].op, status |-> status]
    /\ inflight' = finished(k)
    /\ UNCHANGED << guests, drinks, consumptions, guest_list_file,
                   drink_list_file, db_file, utcnow >>

(***************************************************************************)
(* The other writers commit once, right after their only write, and are    *)
(* one step here as well.  While another request holds the write lock such *)
(* a step does not write: it waits (the step is taken later) or gives up   *)
(* when the timeout expires: add_drink catches the error and answers 500,  *)
(* select_guest does not catch it (500).  The host's pages write nothing   *)
(* and read committed rows only, which change at the commits alone: their  *)
(* interleavings with the other steps are those of SpecOperator.           *)
(***************************************************************************)
\* no request holds the write lock
no_lock == lock_free(0)

\* select_guest and add_drink when no request holds the write lock, and
\* their answers that need no write
select_guest_served(guest_id, weight) ==
    select_guest(guest_id, "POST", weight) /\ (no_lock \/ UNCHANGED guests)

add_drink_served(guest_id, drink_id) ==
    add_drink(guest_id, drink_id) /\ (no_lock \/ UNCHANGED consumptions)

add_drink_locked(guest_id, drink_id) ==
    /\ ~no_lock
    /\ guest_id # NULL /\ drink_id # NULL
    /\ guest_id[1] <= Len(guests) /\ drink_id[1] <= Len(drinks)
    /\ resp' = [op |-> "add_drink", status |-> 500]
    /\ UNCHANGED << guests, drinks, consumptions, guest_list_file,
                   drink_list_file, db_file, utcnow, inflight >>

select_guest_locked(guest_id, weight) ==
    /\ ~no_lock
    /\ guest_id <= Len(guests)
    /\ weight.kind \in {"num", "nan"}
    /\ resp' = [op |-> "select_guest", status |-> 500]
    /\ UNCHANGED << guests, drinks, consumptions, guest_list_file,
                   drink_list_file, db_file, utcnow, inflight >>

\* the weights of the forms and payloads beside concurrent requests
ConcurrentWeightInputs == { NoWeight, Num(150), NotANumber }

NextConcurrent ==
    \/ \E c \in ConfirmInputs : cleanup(c)
    \/ \E k \in 1..MaxInFlight : cleanup_drinks(k)
    \/ \E k \in 1..MaxInFlight : cleanup_database(k)
    \/ \E g \in GuestIds, w \in ConcurrentWeightInputs :
          select_guest_served(g, w)
    \/ \E g \in GuestIds, w \in ConcurrentWeightInputs :
          select_guest_locked(g, w)
    \/ \E g \in GuestIdInputs, d \in FirstDrinkInputs : add_drink_served(g, d)
    \/ \E g \in GuestIdInputs, d \in FirstDrinkInputs : add_drink_locked(g, d)
    \/ \E n \in NameInputs, w \in ConcurrentWeightInputs : add_guest_check(n, w)
    \/ \E k \in 1..MaxInFlight : add_guest_commit(k)
    \/ index_begin
    \/ \E k \in 1..MaxInFlight : index_guest_line(k)
    \/ \E k \in 1..MaxInFlight : index_guest_commit(k)
    \/ \E k \in 1..MaxInFlight : index_drink_row(k)
    \/ \E k \in 1..MaxInFlight : index_drink_commit(k)
    \/ \E k \in 1..MaxInFlight, s \in {200, 500} : lock_timeout(k, s)
    \/ \E k \in 1..MaxInFlight, s \in {200, 500} : session_removed(k, s)

\* the servers start on an empty database or after setup.py
InitConcurrent == Init \/ InitSetup

SpecConcurrent == InitConcurrent /\ [][NextConcurrent]_vars

(***************************************************************************)
(* The charts and the clock.  bac_chart reads the clock before it loads    *)
(* the guest's drinks (guest.drinks is loaded where the sample loop first  *)
(* touches it); group_bac_chart loads the guests, then the drinks of one   *)
(* guest after the other, and reads the clock after that.  The guest       *)
(* server stores drinks in between, and time passes.  Here the two         *)
(* requests are split at these points.  The party is the one setup.py      *)
(* leaves behind (InitSetup), and the                                      *)
(* add_drink requests name the first two guests and the first two drinks,  *)
(* so that two guests have drinks.  No step of these specifications        *)
(* changes a guest or a drink.                                             *)
(***************************************************************************)
\* chart requests of one kind that may be in flight at one time
MaxCharts == 1

\* the guests whose drinks are logged, and the drinks
ChartGuestIds == { 1, 2 }
ChartDrinkIds == { 1, 2 }

\* bac_chart up to `now = datetime.utcnow()`; a chart in flight is
\* [op, guest_id, now]
bac_chart_now(guest_id) ==
    /\ IF ~db_file
       THEN /\ resp' = [op |-> "bac_chart", status |-> 500]
            /\ UNCHANGED inflight
       ELSE IF guest_id > Len(guests)
       THEN /\ resp' = [op |-> "bac_chart", status |-> 404]
            /\ UNCHANGED inflight
       ELSE IF no_weight(guests[guest_id].weight)
       THEN /\ resp' = [op |-> "bac_chart", status |-> 400,
                        guest_id |-> guest_id]
            /\ UNCHANGED inflight
       ELSE /\ Len(inflight) < MaxInFlight
            /\ in_flight("bac_chart") < MaxCharts
            /\ inflight' = Append(inflight,
                   [op |-> "bac_chart", guest_id |-> guest_id, now |-> utcnow])
            /\ resp' = [op |-> "bac_chart_now"]
    /\ UNCHANGED << guests, drinks, consumptions, guest_list_file,
                   drink_list_file, db_file, utcnow >>

\* bac_chart from there on: guest.drinks is loaded, the samples and the
\* markers are computed for the window that ends at the reading taken
bac_chart_load(k) ==
    /\ k \in 1..Len(inflight)
    /\ inflight[k].op = "bac_chart"
    /\ resp' = [op |-> "bac_chart", status |-> 200,
                guest_id |-> inflight[k].guest_id, now |-> inflight[k].now]
    /\ inflight' = finished(k)
    /\ UNCHANGED << guests, drinks, consumptions, guest_list_file,
                   drink_list_file, db_file, utcnow >>

NextChart ==
    \/ \E g \in ChartGuestIds, d \in ChartDrinkIds :
          add_drink(Some(g), Some(d))
    \/ \E g \in ChartGuestIds : bac_chart_now(g)
    \/ \E k \in 1..MaxInFlight : bac_chart_load(k)
    \/ Tick

\* bac_chart beside the guests' drinks
SpecChart == InitSetup /\ [][NextChart]_vars

\* group_bac_chart up to `guests = Guest.query.all()`; a group chart in
\* flight is [op, guests, next, loaded]: the guests it has loaded, the
\* guest the test of valid_guests comes to next, and the drinks loaded
group_bac_chart_guests ==
    /\ IF ~db_file
       THEN /\ resp' = [op |-> "group_bac_chart", status |-> 500]
            /\ UNCHANGED inflight
       ELSE /\ Len(inflight) < MaxInFlight
            /\ in_flight("group_bac_chart") < MaxCharts
            /\ inflight' = Append(inflight,
                   [op |-> "group_bac_chart", guests |-> guests, next |-> 1,
                    loaded |-> << >>])
            /\ resp' = [op |-> "group_bac_chart_guests"]
    /\ UNCHANGED << guests, drinks, consumptions, guest_list_file,
                   drink_list_file, db_file, utcnow >>

\* one round of the list comprehension of valid_guests: g.drinks is loaded
\* when the weight of g passes the test
group_bac_chart_drinks(k) ==
    /\ k \in 1..Len(inflight)
    /\ inflight[k].op = "group_bac_chart"
    /\ inflight[k].next <= Len(inflight[k].guests)
    /\ inflight' = [inflight EXCEPT ![k] =
           [@ EXCEPT !.next = @ + 1,
                     !.loaded = @ \o loaded_drinks(inflight[k].guests,
                                                  inflight[k].next)]]
    /\ resp' = [op |-> "group_bac_chart_drinks"]
    /\ UNCHANGED << guests, drinks, consumptions, guest_list_file,
                   drink_list_file, db_file, utcnow >>

\* group_bac_chart from `now = datetime.utcnow()` on: the timestamps, the
\* series of the first valid guest and the NameError
group_bac_chart_now(k) ==
    /\ k \in 1..Len(inflight)
    /\ inflight[k].op = "group_bac_chart"
    /\ inflight[k].next > Len(inflight[k].guests)
    /\ resp' = [op |-> "group_bac_chart", status |-> 500, now |-> utcnow,
                loaded |-> inflight[k].loaded]
    /\ inflight' = finished(k)
    /\ UNCHANGED << guests, drinks, consumptions, guest_list_file,
                   drink_list_file, db_file, utcnow >>

NextGroupChart ==
    \/ \E g \in ChartGuestIds, d \in ChartDrinkIds :
          add_drink(Some(g), Some(d))
    \/ group_bac_chart_guests
    \/ \E k \in 1..MaxInFlight : group_bac_chart_drinks(k)
    \/ \E k \in 1..MaxInFlight : group_bac_chart_now(k)
    \/ Tick

\* group_bac_chart beside the guests' drinks
SpecGroupChart == InitSetup /\ [][NextGroupChart]_vars

(***************************************************************************)
(* Claims.                                                                 *)
(*                                                                         *)
(* Reference values are computed in exact integer arithmetic on wide       *)
(* integers: tuples of four limbs, least significant first, denoting       *)
(* t[1] + t[2]*B + t[3]*B^2 + t[4]*B^3 for B = LimbBase; the three low     *)
(* limbs lie in 0..B-1 and the top limb carries the sign.                  *)
(***************************************************************************)
LimbBase == 2^15

WNorm(t) ==
    LET s2 == t[2] + (t[1] \div LimbBase)
        s3 == t[3] + (s2 \div LimbBase)
    IN  << t[1] % LimbBase, s2 % LimbBase, s3 % LimbBase,
           t[4] + (s3 \div LimbBase) >>

WInt(x) == WNorm(<< x, 0, 0, 0 >>)

WZero == << 0, 0, 0, 0 >>

WAdd(a, b) == WNorm(<< a[1] + b[1], a[2] + b[2], a[3] + b[3], a[4] + b[4] >>)

WSub(a, b) == WNorm(<< a[1] - b[1], a[2] - b[2], a[3] - b[3], a[4] - b[4] >>)

\* a * k for a limb-sized k (0 <= k < LimbBase)
WScale(a, k) == WNorm(<< a[1] * k, a[2] * k, a[3] * k, a[4] * k >>)

\* a * LimbBase
WShift(a) == << 0, a[1], a[2], a[3] + a[4] * LimbBase >>

\* a * n for 0 <= n < LimbBase^2
WMul(a, n) == WAdd(WScale(a, n % LimbBase), WShift(WScale(a, n \div LimbBase)))

WLess(a, b) ==
    \/ a[4] < b[4]
    \/ a[4] = b[4] /\ a[3] < b[3]
    \/ a[4] = b[4] /\ a[3] = b[3] /\ a[2] < b[2]
    \/ a[4] = b[4] /\ a[3] = b[3] /\ a[2] = b[2] /\ a[1] < b[1]

WLeq(a, b) == a = b \/ WLess(a, b)

\* max(0, a)
WMax0(a) == IF a[4] < 0 THEN WZero ELSE a

\* BAC_DISPLAY_CAP in thousandths of a percent
DisplayCap == round(BAC_DISPLAY_CAP, BAC_DECIMAL_PRECISION)

\* the requests of the guest and of the host server
Requests ==
    { "index", "select_guest", "add_guest", "add_drink", "dashboard",
      "guest_data", "bac_chart", "group_bac_chart" }

HasPositiveWeight(i) == guests[i].weight # NULL /\ guests[i].weight[1] > 0

ChartOk == resp.op = "bac_chart" /\ resp.status = 200

\* the drink of a consumption row
DrinkOf(c) == drinks[c.drink_id]

(***************************************************************************)
(* C1.  For every guest whose weight is null, zero or negative,            *)
(* calculate_bac returns exactly 0.0, whatever consumption events the      *)
(* guest has.                                                              *)
(***************************************************************************)
C1_NoWeightGivesZero ==
    resp.op = "guest_data" =>
        \A i \in 1..Len(guests) :
            (guests[i].weight = NULL \/ guests[i].weight[1] <= 0)
                => guest_data_response[i].bac = 0

\* a guest with a negative weight and two drinks, one of them alcoholic,
\* whose BAC has been asked for
C1_Witness ==
    /\ resp.op = "guest_data"
    /\ \E i \in 1..Len(guests) :
          /\ guests[i].weight # NULL
          /\ guests[i].weight[1] < 0
          /\ Len(guest_drinks(i)) = 2
          /\ \E k \in 1..2 : DrinkOf(guest_drinks(i)[k]).abv > 0

(***************************************************************************)
(* C2.  Clamp invariant: the value calculate_bac returns and every sample  *)
(* bac_chart and group_bac_chart compute lie between 0 and                 *)
(* BAC_DISPLAY_CAP, for every weight, history (negative ABV and events     *)
(* stamped after the evaluation instant included) and instant.             *)
(***************************************************************************)
InClamp(v) == 0 <= v /\ v <= DisplayCap

C8_NoEventsGiveZero ==
    /\ resp.op = "guest_data" =>
          \A i \in 1..Len(guests) :
             (HasPositiveWeight(i) /\ Len(guest_drinks(i)) = 0)
                => guest_data_response[i].bac = 0
    /\ (ChartOk /\ Len(guest_drinks(resp.guest_id)) = 0) =>
          LET values == bac_chart_response.bac_values
          IN  \A k \in 1..Len(values) : values[k] = 0

\* the chart of a guest with a positive weight and no drinks, drawn when the
\* drink list is loaded
C8_Witness ==
    /\ ChartOk
    /\ HasPositiveWeight(resp.guest_id)
    /\ Len(guest_drinks(resp.guest_id)) = 0
    /\ Len(drinks) > 0
    /\ Len(bac_chart_response.bac_values) > 0

(***************************************************************************)
(* C10.  The timeline of bac_chart and group_bac_chart has exactly         *)
(* floor((end - start) / interval) + 1 samples, 25 for the window of 6     *)
(* hours ending now and the step of 15 minutes, and the list of BAC values *)
(* is as long as the list of timestamps.                                   *)
(***************************************************************************)
TimelineLength(now) ==
    ((now - (now - HISTORY_HOURS * 60)) \div INTERVAL_MINUTES) + 1

C10_TimelineLength ==
    /\ ChartOk =>
          LET r == bac_chart_response
          IN  /\ Len(r.timestamps) = TimelineLength(resp.now)
              /\ Len(r.timestamps) = 25
              /\ Len(r.bac_values) = Len(r.timestamps)
    /\ resp.op = "group_bac_chart" =>
          LET r == group_bac_chart_built
          IN  /\ Len(r.timestamps) = TimelineLength(resp.now)
              /\ Len(r.timestamps) = 25
              /\ \A j \in 1..Len(r.traces) :
                    Len(r.traces[j].bac_values) = Len(r.timestamps)

\* a chart drawn for a guest who has had a drink
C10_Witness ==
    /\ ChartOk
    /\ Len(guest_drinks(resp.guest_id)) > 0
    /\ Len(bac_chart_response.timestamps) = 25

(***************************************************************************)
(* The Widmark value of one drink for a body weight in pounds, with the    *)
(* weight in grams, as the fraction WidmarkNum / WidmarkDen of thousandths *)
(* of a percent:                                                           *)
(*   (abv * volume_ml * 0.789 / 100) / (w * 0.453592 * 1000 * 0.62) * 100  *)
(***************************************************************************)
WidmarkNum(drink) == WMul(WMul(WInt(drink.abv * drink.volume_ml), 789), 100000)

WidmarkDen(w) == WMul(WMul(WInt(w), 453592), 62)

\* |v - num/den| < 1, for den > 0
WithinOne(v, num, den) ==
    /\ WLess(WMul(den, v - 1), num)
    /\ WLess(num, WMul(den, v + 1))

(***************************************************************************)
(* C3.  For a guest with positive weight w and a single drink consumed     *)
(* exactly at the evaluation instant, calculate_bac returns a value within *)
(* 0.001 of the Widmark value with the body weight in grams; for w = 150,  *)
(* abv = 5.0, volume_ml = 355 the result is 0.033.                         *)
(***************************************************************************)
C3_WidmarkAtZeroElapsed ==
    resp.op = "guest_data" =>
        \A i \in 1..Len(guests) :
            (/\ HasPositiveWeight(i)
             /\ Len(guest_drinks(i)) = 1
             /\ guest_drinks(i)[1].timestamp = resp.at)
            => LET w     == guests[i].weight[1]
                   drink == DrinkOf(guest_drinks(i)[1])
                   bac   == guest_data_response[i].bac
               IN  /\ WithinOne(bac, WidmarkNum(drink), WidmarkDen(w))
                   /\ (w = 150 /\ drink.abv = 5 /\ drink.volume_ml = 355)
                         => bac = 33

(***************************************************************************)
(* C4.  For a guest with positive weight and a single drink consumed       *)
(* h >= 0 hours before the evaluation instant, calculate_bac returns a     *)
(* value within 0.001 of max(0, raw_BAC - 0.015 * h), raw_BAC being the    *)
(* Widmark value of the drink.  In thousandths of a percent and minutes m: *)
(* max(0, num/den - m/4) = max(0, 4*num - m*den) / (4*den).                *)
(***************************************************************************)
C4_LinearElimination ==
    resp.op = "guest_data" =>
        \A i \in 1..Len(guests) :
            (/\ HasPositiveWeight(i)
             /\ Len(guest_drinks(i)) = 1
             /\ guest_drinks(i)[1].timestamp <= resp.at)
            => LET w     == guests[i].weight[1]
                   drink == DrinkOf(guest_drinks(i)[1])
                   m     == resp.at - guest_drinks(i)[1].timestamp
                   left  == WMax0(WSub(WScale(WidmarkNum(drink), 4),
                                       WMul(WidmarkDen(w), m)))
               IN  WithinOne(guest_data_response[i].bac, left,
                             WScale(WidmarkDen(w), 4))

(***************************************************************************)
(* C5.  The point calculation and the timeline calculation apply the same  *)
(* elimination policy: for a guest with positive weight, calculate_bac     *)
(* evaluated at an instant t returns the value of the bac_chart sample     *)
(* computed for t.                                                         *)
(***************************************************************************)
C5_PointEqualsTimeline ==
    ChartOk =>
        LET r == bac_chart_response
        IN  \A k \in 1..Len(r.timestamps) :
               calculate_bac(guests[resp.guest_id].weight,
                             guest_drinks(resp.guest_id), r.timestamps[k])
                  = r.bac_values[k]

(***************************************************************************)
(* C6.  Monotonic decay: for a guest with positive weight and exactly one  *)
(* event, at time e, and instants t1 < t2 with e <= t1, the BAC at t1 is   *)
(* at least the BAC at t2, for calculate_bac and for the bac_chart         *)
(* samples.  t1 is the instant of the recorded request; t2 ranges over the *)
(* later readings of the local clock and over the later samples.           *)
(***************************************************************************)
LocalInstants ==
    { ClockInstants[j] + z : j \in 1..Len(ClockInstants), z \in TzOffsets }

C6_MonotonicDecay ==
    /\ resp.op = "guest_data" =>
          \A i \in 1..Len(guests) :
             (/\ HasPositiveWeight(i)
              /\ Len(guest_drinks(i)) = 1
              /\ guest_drinks(i)[1].timestamp <= resp.at)
             => \A t2 \in LocalInstants :
                   t2 > resp.at =>
                      guest_data_response[i].bac
                         >= calculate_bac(guests[i].weight, guest_drinks(i), t2)
    /\ (ChartOk /\ Len(guest_drinks(resp.guest_id)) = 1) =>
          LET r == bac_chart_response
              e == guest_drinks(resp.guest_id)[1].timestamp
          IN  \A k1, k2 \in 1..Len(r.timestamps) :
                 (k1 < k2 /\ e <= r.timestamps[k1])
                    => r.bac_values[k1] >= r.bac_values[k2]

\* a chart with one drink in it whose samples fall from a positive value to 0
C6_Witness ==
    /\ ChartOk
    /\ Len(guest_drinks(resp.guest_id)) = 1
    /\ LET r == bac_chart_response
           e == guest_drinks(resp.guest_id)[1].timestamp
       IN  \E k1, k2 \in 1..Len(r.timestamps) :
              /\ k1 < k2
              /\ e <= r.timestamps[k1]
              /\ r.bac_values[k1] > r.bac_values[k2]
              /\ r.bac_values[k2] = 0

(***************************************************************************)
(* C7.  If a guest with positive weight has no event at or before the      *)
(* evaluation instant, the BAC for that instant is 0.0: for calculate_bac  *)
(* at its current time and for every sample of bac_chart and               *)
(* group_bac_chart.                                                        *)
(***************************************************************************)
NoneAtOrBefore(cons, t) == \A k \in 1..Len(cons) : cons[k].timestamp > t

C7_NoEarlierEventGivesZero ==
    /\ resp.op = "guest_data" =>
          \A i \in 1..Len(guests) :
             (HasPositiveWeight(i) /\ NoneAtOrBefore(guest_drinks(i), resp.at))
                => guest_data_response[i].bac = 0
    /\ ChartOk =>
          LET r == bac_chart_response
          IN  \A k \in 1..Len(r.timestamps) :
                 NoneAtOrBefore(guest_drinks(resp.guest_id), r.timestamps[k])
                    => r.bac_values[k] = 0
    /\ resp.op = "group_bac_chart" =>
          LET r == group_bac_chart_built
          IN  \A j \in 1..Len(r.traces) :
                 \A k \in 1..Len(r.timestamps) :
                    NoneAtOrBefore(guest_drinks(r.traces[j].guest_id),
                                   r.timestamps[k])
                       => r.traces[j].bac_values[k] = 0

(***************************************************************************)
(* C9.  Additivity: for a guest with positive weight, a drink with         *)
(* ABV >= 0 and an instant at or after the event time, the BAC of two      *)
(* events of that drink at the same timestamp is at least the BAC of one   *)
(* such event, for calculate_bac and for the bac_chart samples.            *)
(***************************************************************************)
TwoOfTheSame(cons) ==
    /\ Len(cons) = 2
    /\ cons[1].drink_id = cons[2].drink_id
    /\ cons[1].timestamp = cons[2].timestamp
    /\ DrinkOf(cons[1]).abv >= 0

C9_Additivity ==
    /\ resp.op = "guest_data" =>
          \A i \in 1..Len(guests) :
             (/\ HasPositiveWeight(i)
              /\ TwoOfTheSame(guest_drinks(i))
              /\ guest_drinks(i)[1].timestamp <= resp.at)
             => guest_data_response[i].bac
                   >= calculate_bac(guests[i].weight,
                                    << guest_drinks(i)[1] >>, resp.at)
    /\ (ChartOk /\ TwoOfTheSame(guest_drinks(resp.guest_id))) =>
          LET r  == bac_chart_response
              gd == guest_drinks(resp.guest_id)
          IN  \A k \in 1..Len(r.timestamps) :
                 gd[1].timestamp <= r.timestamps[k]
                    => r.bac_values[k]
                          >= bac_sample(guests[resp.guest_id].weight[1],
                                        << gd[1] >>, r.timestamps[k])

\* two beers taken at once give a strictly higher BAC than one, below the cap
C9_Witness ==
    /\ resp.op = "guest_data"
    /\ \E i \in 1..Len(guests) :
          /\ HasPositiveWeight(i)
          /\ TwoOfTheSame(guest_drinks(i))
          /\ guest_drinks(i)[1].timestamp <= resp.at
          /\ guest_data_response[i].bac < DisplayCap
          /\ guest_data_response[i].bac
                > calculate_bac(guests[i].weight,
                                << guest_drinks(i)[1] >>, resp.at)

(***************************************************************************)
(* C11.  The sample instants of the timeline are ordered: the first is the *)
(* window start (now minus 6 hours), each next one is exactly 15 minutes   *)
(* after the previous one, none is later than the window end, and the last *)
(* one equals the window end (now).                                        *)
(***************************************************************************)
OrderedWindow(timestamps, now) ==
    /\ Len(timestamps) > 0
    /\ timestamps[1] = now - 6 * 60
    /\ \A k \in 1..(Len(timestamps) - 1) : timestamps[k + 1] = timestamps[k] + 15
    /\ \A k \in 1..Len(timestamps) : timestamps[k] <= now
    /\ timestamps[Len(timestamps)] = now

C11_TimelineOrdered ==
    /\ ChartOk => OrderedWindow(bac_chart_response.timestamps, resp.now)
    /\ resp.op = "group_bac_chart" =>
          OrderedWindow(group_bac_chart_built.timestamps, resp.now)

\* a chart drawn three hours or more after the start, whose window holds the
\* guest's drink and reaches back before it
C11_Witness ==
    /\ ChartOk
    /\ resp.now >= 180
    /\ LET r == bac_chart_response
       IN  /\ Len(r.drinks) > 0
           /\ r.timestamps[1] < r.drinks[1].timestamp
           /\ r.timestamps[Len(r.timestamps)] = resp.now

(***************************************************************************)
(* C12.  Each bac_chart sample at instant t uses only events with          *)
(* timestamp <= t and follows aggregate-time elimination: with S the       *)
(* alcohol-mass sum of those events and e0 the earliest of their           *)
(* timestamps, the sample equals                                           *)
(*   round(min(max(0, S/(weight_g*0.62)*100 - 0.015*hours(t - e0)), 0.5), 3)*)
(* and an event stamped after t has no influence on the sample at t.       *)
(* In thousandths of a percent, with num/den the Widmark value of S and m  *)
(* the minutes from e0 to t, the unrounded value is                        *)
(* max(0, 4*num - m*den) / (4*den).                                        *)
(***************************************************************************)
RECURSIVE WidmarkSum(_, _)
WidmarkSum(cons, i) ==
    IF i > Len(cons) THEN WZero
    ELSE WAdd(WidmarkNum(DrinkOf(cons[i])), WidmarkSum(cons, i + 1))

\* v is min(num/den, 500) rounded to a whole number, for num >= 0 and den > 0
NearestCapped(v, num, den) ==
    IF WLeq(WMul(den, 500), num) THEN v = 500
    ELSE /\ WLeq(WScale(WSub(num, WMul(den, v)), 2), den)
         /\ WLeq(WScale(WSub(WMul(den, v), num), 2), den)

NotAfter(cons, t) == SelectSeq(cons, LAMBDA c : c.timestamp <= t)

AggregateSample(v, w, cons, t) ==
    LET used == NotAfter(cons, t)
    IN  IF Len(used) = 0 THEN v = 0
        ELSE LET e0 == CHOOSE e \in { used[i].timestamp : i \in 1..Len(used) } :
                          \A i \in 1..Len(used) : e <= used[i].timestamp
                 left == WMax0(WSub(WScale(WidmarkSum(used, 1), 4),
                                    WMul(WidmarkDen(w), t - e0)))
             IN  NearestCapped(v, left, WScale(WidmarkDen(w), 4))

C12_AggregateElimination ==
    ChartOk =>
        LET r  == bac_chart_response
            w  == guests[resp.guest_id].weight[1]
            gd == guest_drinks(resp.guest_id)
        IN  \A k \in 1..Len(r.timestamps) :
               /\ AggregateSample(r.bac_values[k], w, gd, r.timestamps[k])
               /\ r.bac_values[k]
                     = bac_sample(w, NotAfter(gd, r.timestamps[k]), r.timestamps[k])

\* a chart with a sample that lies after one drink of the guest and before
\* another, and is neither 0 nor at the cap
C12_Witness ==
    /\ ChartOk
    /\ LET r  == bac_chart_response
           gd == guest_drinks(resp.guest_id)
       IN  \E k \in 1..Len(r.timestamps) :
              /\ \E i \in 1..Len(gd) : gd[i].timestamp <= r.timestamps[k]
              /\ \E i \in 1..Len(gd) :
                    gd[i].timestamp > r.timestamps[k] /\ DrinkOf(gd[i]).abv > 0
              /\ r.bac_values[k] > 0
              /\ r.bac_values[k] < DisplayCap

(***************************************************************************)
(* C13.  An event whose drink has ABV = 0 contributes exactly 0 alcohol    *)
(* whatever its volume and timestamp: a guest with positive weight whose   *)
(* events all have ABV 0 has calculate_bac = 0.0, and adding an ABV-0      *)
(* event to a history does not raise the value calculate_bac returns.      *)
(***************************************************************************)
Without(cons, k) == SubSeq(cons, 1, k - 1) \o SubSeq(cons, k + 1, Len(cons))

C13_ZeroAbvAddsNothing ==
    resp.op = "guest_data" =>
        \A i \in 1..Len(guests) :
            HasPositiveWeight(i) =>
                LET gd  == guest_drinks(i)
                    bac == guest_data_response[i].bac
                IN  /\ (\A k \in 1..Len(gd) : DrinkOf(gd[k]).abv = 0) => bac = 0
                    /\ \A k \in 1..Len(gd) :
                          DrinkOf(gd[k]).abv = 0 =>
                             bac <= calculate_bac(guests[i].weight,
                                                  Without(gd, k), resp.at)

(***************************************************************************)
(* C14.  calculate_bac measures each event's elapsed time against an       *)
(* evaluation instant taken in the timezone in which add_drink stamps      *)
(* events (UTC), so every event recorded before the call has elapsed time  *)
(* >= 0 and its remaining alcohol never exceeds the alcohol it originally  *)
(* contained, whatever the server's local UTC offset.                      *)
(***************************************************************************)
C14_SameReferenceClock ==
    resp.op = "guest_data" =>
        \A i \in 1..Len(guests) :
            HasPositiveWeight(i) =>
                \A k \in 1..Len(guest_drinks(i)) :
                    LET c == guest_drinks(i)[k]
                    IN  /\ resp.at - c.timestamp >= 0
                        /\ DrinkOf(c).abv >= 0 =>
                              ~FLess(alcohol_grams(DrinkOf(c)),
                                     remaining_alcohol(guests[i].weight[1], c,
                                                       resp.at))

(***************************************************************************)
(* C15.  Every value returned by calculate_bac and every non-trivial       *)
(* bac_chart sample is rounded to BAC_DECIMAL_PRECISION = 3 decimals: it   *)
(* is the multiple of 0.001 nearest to the capped unrounded value, and it  *)
(* does not exceed BAC_DISPLAY_CAP.  Values are counted in units of        *)
(* 10^-3 percent, so the multiple of 0.001 is a whole number of units; the *)
(* capped unrounded value is the double the code hands to round().         *)
(***************************************************************************)
\* min(bac, BAC_DISPLAY_CAP) of calculate_bac
CappedPoint(w, cons, t) ==
    min(FMul(FDiv(total_remaining(w, cons, t, Len(cons)),
                  FMul(FMul(Float(w), LBS_TO_KG_CONVERSION),
                       AVERAGE_GENDER_CONSTANT)),
             Float(100)),
        BAC_DISPLAY_CAP)

\* min(bac, BAC_DISPLAY_CAP) of a sample with relevant consumptions
CappedSample(w, cons, t) ==
    LET relevant == relevant_consumptions(cons, t)
    IN  min(max(FZero,
                FSub(FMul(FDiv(total_alcohol_grams(relevant, Len(relevant)),
                               FMul(FMul(FMul(Float(w), LBS_TO_KG_CONVERSION),
                                         Float(1000)),
                                    AVERAGE_GENDER_CONSTANT)),
                          Float(100)),
                     FMul(BAC_METABOLISM_RATE,
                          hours_between(earliest_consumption(relevant), t)))),
            BAC_DISPLAY_CAP)

\* the natural number a < 2^31 in limbs
BigOf(a) ==
    << a % Limb, (a \div Limb) % Limb, a \div (Limb * Limb), 0, 0, 0, 0, 0 >>

\* |v * 2^k - x.man * 1000| for a double x with exponent -k and 0 <= v < 2^10
OffBy(v, x) ==
    LET scaled == ShiftLeft(BigOf(v), 0 - x.exp)
        exact  == BigScale(x.man, 1000)
    IN  IF BigLess(scaled, exact) THEN BigSub(exact, scaled)
        ELSE BigSub(scaled, exact)

\* v differs from x * 1000 by half a unit at most, for a double 0 <= x < 1
NearestUnit(v, x) ==
    IF IsZero(x) THEN v = 0
    ELSE /\ x.sign = 1
         /\ v >= 0
         /\ IF 0 - x.exp > 100 THEN v = 0
            ELSE ~BigLess(ShiftLeft(BigOf(1), 0 - x.exp), BigScale(OffBy(v, x), 2))

C16_NoWeightChartIsZero ==
    (/\ resp.op = "bac_chart"
     /\ resp.status # 404
     /\ ~HasPositiveWeight(resp.guest_id))
    => /\ resp.status = 200
       /\ \A k \in 1..Len(bac_chart_response.bac_values) :
             bac_chart_response.bac_values[k] = 0

(***************************************************************************)
(* C17.  The consumption log is append-only: over any sequence of          *)
(* operations (index, select_guest, add_guest, add_drink, dashboard,       *)
(* guest_data, bac_chart, group_bac_chart) no existing DrinkConsumption    *)
(* record is deleted and none has its guest, drink or timestamp changed;   *)
(* the only change to the log is add_drink appending one new record.       *)
(***************************************************************************)
C17_AppendOnlyLog ==
    [][ resp'.op \in Requests =>
           \/ consumptions' = consumptions
           \/ /\ resp'.op = "add_drink"
              /\ resp'.status = 200
              /\ Len(consumptions') = Len(consumptions) + 1
              /\ SubSeq(consumptions', 1, Len(consumptions)) = consumptions ]_vars

\* two drinks logged at different instants, and a weight posted afterwards
C17_Witness ==
    /\ Len(consumptions) = 2
    /\ consumptions[1].timestamp < consumptions[2].timestamp
    /\ resp.op = "select_guest"
    /\ resp.status = 200
    /\ guests[consumptions[1].guest_id].weight # NULL

(***************************************************************************)
(* C18.  BAC estimation has no side effects: calculate_bac and the host    *)
(* endpoints guest_data, bac_chart and group_bac_chart leave every Guest,  *)
(* Drink and DrinkConsumption record unchanged, so interleaving them with  *)
(* add_drink and add_guest requests never changes what those store.        *)
(* Every request that writes a table leaves its own name in resp.          *)
(***************************************************************************)
C18_EstimationHasNoSideEffects ==
    [][ resp'.op \in {"guest_data", "bac_chart", "group_bac_chart"}
           => UNCHANGED << guests, drinks, consumptions >> ]_vars

\* the BAC of a guest with a stored weight of 0 or less has been asked for
\* while the log holds a drink of theirs
C18_Witness ==
    /\ resp.op = "guest_data"
    /\ \E i \in 1..Len(guests) :
          /\ guests[i].weight # NULL
          /\ guests[i].weight[1] <= 0
          /\ Len(guest_drinks(i)) > 0

(***************************************************************************)
(* C19.  add_guest with a name that, after trimming surrounding            *)
(* whitespace, equals the name of an existing guest returns status 400     *)
(* with success=false and creates no guest; no request changes the name of *)
(* a guest, so after any sequence of sequential add_guest requests a       *)
(* second request with the same name always fails with 'already exists'.   *)
(***************************************************************************)
NameTaken(n) ==
    n # NULL /\ \E i \in 1..Len(guests) : guests[i].name = strip(n[1])

C19_DuplicateNameRejected ==
    [][ /\ resp'.op = "add_guest" =>
              \A n \in NameInputs :
                 NameTaken(n) =>
                    \A w \in WeightInputs :
                       add_guest(n, w) =>
                          /\ resp'.status = 400
                          /\ resp'.error = "already exists"
                          /\ guests' = guests
        /\ (resp'.op = "add_guest" /\ resp'.status = 200) =>
              \A n \in NameInputs, w \in WeightInputs :
                 add_guest(n, w) =>
                    \E i \in 1..Len(guests') : guests'[i].name = strip(n[1])
        /\ resp'.op \in Requests =>
              \A i \in 1..Len(guests) :
                 i <= Len(guests') /\ guests'[i].name = guests[i].name ]_vars

\* a guest made by add_guest (the guest list was never read), and a second
\* request with the same name refused
C19_Witness ==
    /\ resp.op = "add_guest"
    /\ resp.status = 400
    /\ resp.error = "already exists"
    /\ drinks = << >>
    /\ Len(guests) = 1

(***************************************************************************)
(* C20.  add_guest validates its input before storing anything: a request  *)
(* with no name field, an empty or whitespace-only name, a weight that is  *)
(* zero or negative, or a weight that is not a number returns status 400   *)
(* with success=false and leaves the guest table unchanged; a request with *)
(* a valid new name and a positive (or absent) weight creates exactly one  *)
(* guest with that name and weight.                                        *)
(***************************************************************************)
InvalidAddGuest(n, w) ==
    \/ n = NULL
    \/ Len(strip(n[1])) = 0
    \/ w.kind = "num" /\ w.value <= 0
    \/ w.kind \in {"text", "nan"}

C20_AddGuestValidates ==
    [][ resp'.op = "add_guest" =>
           \A n \in NameInputs, w \in WeightInputs :
              add_guest(n, w) =>
                 IF InvalidAddGuest(n, w)
                 THEN resp'.status = 400 /\ guests' = guests
                 ELSE ~NameTaken(n) =>
                         /\ resp'.status = 200
                         /\ guests' = Append(guests,
                               [name |-> strip(n[1]),
                                weight |-> IF w.kind = "num"
                                           THEN Some(w.value) ELSE NULL]) ]_vars

(***************************************************************************)
(* C21.  add_drink validates that both the guest and the drink exist       *)
(* before creating the consumption record: a request missing guest_id or   *)
(* drink_id returns 400, a request naming a guest or drink that does not   *)
(* exist returns 404, and in both cases no DrinkConsumption is created; a  *)
(* request naming an existing guest and an existing drink appends exactly  *)
(* one DrinkConsumption for that pair stamped with the current UTC time    *)
(* and returns success (status 200).                                       *)
(***************************************************************************)
C21_AddDrinkValidates ==
    [][ resp'.op = "add_drink" =>
           \A g \in GuestIdInputs, d \in DrinkIdInputs :
              add_drink(g, d) =>
                 IF g = NULL \/ d = NULL
                 THEN resp'.status = 400 /\ consumptions' = consumptions
                 ELSE IF g[1] \notin 1..Len(guests) \/ d[1] \notin 1..Len(drinks)
                 THEN resp'.status = 404 /\ consumptions' = consumptions
                 ELSE /\ resp'.status = 200
                      /\ consumptions' = consumptions \o
                            << [guest_id |-> g[1], drink_id |-> d[1],
                                timestamp |-> utcnow] >> ]_vars

\* a drink that does not exist was asked for by a guest who has one drink
\* logged already
C21_Witness ==
    /\ resp.op = "add_drink"
    /\ resp.status = 404
    /\ Len(guests) > 0
    /\ Len(drinks) > 0
    /\ Len(consumptions) = 1
    /\ utcnow > consumptions[1].timestamp

(***************************************************************************)
(* C22.  group_bac_chart completes successfully (status 200 with chart     *)
(* data and layout) in every database state: when at least one guest has   *)
(* weight > 0 and at least one consumption it returns exactly one BAC      *)
(* trace per such guest and none for other guests, and when no such guest  *)
(* exists (including an empty guest table) a single all-zero placeholder.  *)
(***************************************************************************)
C22_GroupChartSucceeds ==
    resp.op = "group_bac_chart" =>
        /\ resp.status = 200
        /\ Len(valid_guests) > 0 =>
              LET traces == group_bac_chart_built.traces
              IN  /\ Len(traces) = Len(valid_guests)
                  /\ \A j \in 1..Len(traces) :
                        traces[j].guest_id = valid_guests[j].guest_id

(***************************************************************************)
(* C23.  Eventual sobriety: for a guest with positive weight and a finite  *)
(* event history to which no further event is added, there is an instant   *)
(* after which the BAC is 0 at every later instant, for calculate_bac and  *)
(* for the bac_chart samples alike; in particular a single standard beer   *)
(* (5%, 355 mL, 150 lb) consumed 24 hours before the window end gives a    *)
(* last timeline sample in [0, 0.01).  The instant is looked for among the *)
(* horizons 15 * 2^k minutes after the guest's last event, and "every      *)
(* later instant" is sampled at the delays of LaterDelays.                 *)
(***************************************************************************)
SoberHorizons == { 15 * 2^k : k \in 0..12 }

LaterDelays == { 0, 1, 15, 60, 24 * 60, 7 * 24 * 60 }

LastEvent(cons) ==
    CHOOSE t \in { cons[k].timestamp : k \in 1..Len(cons) } :
        \A k \in 1..Len(cons) : cons[k].timestamp <= t

SoberFrom(w, cons, h) ==
    \A d \in LaterDelays :
        /\ calculate_bac(Some(w), cons, h + d) = 0
        /\ bac_sample(w, cons, h + d) = 0

C23_EventualSobriety ==
    resp.op = "guest_data" =>
        \A i \in 1..Len(guests) :
            (HasPositiveWeight(i) /\ Len(guest_drinks(i)) > 0) =>
                LET w  == guests[i].weight[1]
                    gd == guest_drinks(i)
                IN  /\ \E h \in SoberHorizons : SoberFrom(w, gd, LastEvent(gd) + h)
                    /\ (/\ w = 150
                        /\ Len(gd) = 1
                        /\ DrinkOf(gd[1]).abv = 5
                        /\ DrinkOf(gd[1]).volume_ml = 355)
                       => LET last == bac_values(w, gd,
                                 chart_timestamps(gd[1].timestamp + 24 * 60))[25]
                          IN  0 <= last /\ last < 10

\* a guest whose BAC is at the cap now, with two beers in the log
C23_Witness ==
    /\ resp.op = "guest_data"
    /\ \E i \in 1..Len(guests) :
          /\ HasPositiveWeight(i)
          /\ Len(guest_drinks(i)) = 2
          /\ \A k \in 1..2 : DrinkOf(guest_drinks(i)[k]).abv > 0
          /\ guest_drinks(i)[1].timestamp < guest_drinks(i)[2].timestamp
          /\ guest_data_response[i].bac = DisplayCap

(***************************************************************************)
(* C24.  The drink markers of bac_chart are exactly the guest's events     *)
(* that fall within the window [windowStart, windowEnd], one marker per    *)
(* such event, and each marker's y value is the BAC sample at the index    *)
(* whose sample instant is nearest in time to the event's timestamp        *)
(* (lowest index on a tie).  The window ends at the clock reading the      *)
(* chart took, and the events are those the chart loaded.  On the chart's  *)
(* own grid of whole minutes no event is halfway between two samples, so   *)
(* the tie is put to closest_idx on the grid of every other sample.        *)
(***************************************************************************)
Distance(a, b) == IF a < b THEN b - a ELSE a - b

\* j is the lowest index of grid whose instant is nearest to t
NearestLowest(grid, t, j) ==
    /\ \A n \in 1..Len(grid) : Distance(grid[j], t) <= Distance(grid[n], t)
    /\ \A n \in 1..(j - 1) : Distance(grid[n], t) > Distance(grid[j], t)

C24_DrinkMarkers ==
    ChartOk =>
        LET r      == bac_chart_response
            inside == SelectSeq(guest_drinks(resp.guest_id),
                         LAMBDA c : /\ resp.now - 6 * 60 <= c.timestamp
                                    /\ c.timestamp <= resp.now)
            coarse == [ n \in 1..13 |-> r.timestamps[2 * n - 1] ]
        IN  /\ Len(r.drinks) = Len(inside)
            /\ \A k \in 1..Len(inside) :
                  \E m \in 1..Len(r.drinks) :
                     /\ r.drinks[m].timestamp = inside[k].timestamp
                     /\ r.drinks[m].drink_id = inside[k].drink_id
            /\ \A m \in 1..Len(r.drinks) :
                  \E j \in 1..Len(r.timestamps) :
                     /\ NearestLowest(r.timestamps, r.drinks[m].timestamp, j)
                     /\ r.drinks[m].y = r.bac_values[j]
            /\ \A n \in 1..12 :
                  NearestLowest(coarse, r.timestamps[2 * n],
                                closest_idx(coarse, r.timestamps[2 * n]))

(***************************************************************************)
(* C25.  History monotonicity of the timeline: for a guest with positive   *)
(* weight and drinks with ABV >= 0, adding one more consumption event (at  *)
(* any timestamp) to the history never lowers the bac_chart sample at any  *)
(* instant t compared with the sample at t computed without that event.    *)
(***************************************************************************)
C25_TimelineHistoryMonotone ==
    ChartOk =>
        LET r  == bac_chart_response
            w  == guests[resp.guest_id].weight[1]
            gd == guest_drinks(resp.guest_id)
        IN  (\A k \in 1..Len(gd) : DrinkOf(gd[k]).abv >= 0) =>
               \A k \in 1..Len(gd) :
                  \A j \in 1..Len(r.timestamps) :
                     r.bac_values[j]
                        >= bac_sample(w, Without(gd, k), r.timestamps[j])

(***************************************************************************)
(* C26.  History monotonicity of the point estimate: for a guest with      *)
(* positive weight, adding one more consumption event (any drink, any ABV  *)
(* including negative, any timestamp) never lowers the value calculate_bac *)
(* returns at a given evaluation instant, because every event's remaining  *)
(* alcohol is floored at 0 separately before summing.                      *)
(***************************************************************************)
C26_PointHistoryMonotone ==
    resp.op = "guest_data" =>
        \A i \in 1..Len(guests) :
            HasPositiveWeight(i) =>
                \A k \in 1..Len(guest_drinks(i)) :
                    guest_data_response[i].bac
                       >= calculate_bac(guests[i].weight,
                                        Without(guest_drinks(i), k), resp.at)

\* a BAC between 0 and the cap from a beer, with a drink of negative ABV
\* logged after it
C26_Witness ==
    /\ resp.op = "guest_data"
    /\ \E i \in 1..Len(guests) :
          /\ HasPositiveWeight(i)
          /\ Len(guest_drinks(i)) = 2
          /\ DrinkOf(guest_drinks(i)[1]).abv > 0
          /\ DrinkOf(guest_drinks(i)[2]).abv < 0
          /\ guest_data_response[i].bac > 0
          /\ guest_data_response[i].bac < DisplayCap

(***************************************************************************)
(* C27.  Stored-weight invariant: after any sequence of add_guest,         *)
(* select_guest (POST weight), index and add_drink requests, every Guest   *)
(* record's weight is either null or strictly positive.                    *)
(***************************************************************************)
C27_StoredWeightPositive ==
    \A i \in 1..Len(guests) :
        guests[i].weight = NULL \/ guests[i].weight[1] > 0

(***************************************************************************)
(* C28.  Guest names stay unique under concurrency: when add_guest         *)
(* requests (and index requests importing the guest-list file) run         *)
(* concurrently against the shared database, no interleaving of their      *)
(* check-then-insert steps leaves two Guest records with the same name.    *)
(***************************************************************************)
C28_NamesUniqueUnderConcurrency ==
    \A i, j \in 1..Len(guests) :
        i # j => guests[i].name # guests[j].name

(***************************************************************************)
(* C29.  The two timeline call sites agree: for every guest with positive  *)
(* weight and at least one consumption, and for the same window, the BAC   *)
(* series that group_bac_chart computes for that guest is                  *)
(* element-for-element equal to the series bac_chart computes for them.    *)
(* The window ends at the clock reading the group chart took and the       *)
(* consumptions are those it loaded for the guest; the series of           *)
(* group_bac_chart is what its loop over the timestamps gives for them,    *)
(* and whatever trace the request has built is the trace of such a guest   *)
(* and carries that series.                                                *)
(***************************************************************************)
C29_GroupSeriesEqualsChartSeries ==
    resp.op = "group_bac_chart" =>
        LET window == chart_timestamps(resp.now)
            built  == group_bac_chart_built.traces
        IN  /\ \A i \in 1..Len(resp.loaded) :
                  LET g == resp.loaded[i]
                  IN  (g.weight > 0 /\ Len(g.drinks) > 0) =>
                         LET group == group_bac_values(g.weight, g.drinks,
                                                       window)
                             chart == bac_values(g.weight, g.drinks, window)
                         IN  /\ Len(group) = Len(window)
                             /\ Len(chart) = Len(window)
                             /\ \A n \in 1..Len(window) : group[n] = chart[n]
            /\ \A j \in 1..Len(built) :
                  \E i \in 1..Len(resp.loaded) :
                     LET g == resp.loaded[i]
                     IN  /\ g.guest_id = built[j].guest_id
                         /\ HasPositiveWeight(g.guest_id)
                         /\ g.weight = guests[g.guest_id].weight[1]
                         /\ Len(g.drinks) > 0
                         /\ built[j].bac_values
                               = bac_values(g.weight, g.drinks, window)

\* a group chart of two guests with a drink each, taken at different
\* instants: their series differ, and the built one rises from 0
C29_Witness ==
    /\ resp.op = "group_bac_chart"
    /\ Len(valid_guests) = 2
    /\ valid_guests[1].drinks[1].timestamp # valid_guests[2].drinks[1].timestamp
    /\ LET window == chart_timestamps(resp.now)
           one    == bac_values(valid_guests[1].weight,
                                valid_guests[1].drinks, window)
           two    == bac_values(valid_guests[2].weight,
                                valid_guests[2].drinks, window)
       IN  /\ one # two
           /\ group_bac_chart_built.traces[1].bac_values[1] = 0
           /\ group_bac_chart_built.traces[1].bac_values[Len(window)] > 0

(***************************************************************************)
(* C30.  Weight monotonicity: for a fixed event history and evaluation     *)
(* instant, a guest with larger positive weight never gets a higher BAC    *)
(* than a guest with smaller positive weight, both in calculate_bac and in *)
(* the bac_chart samples.  The guest's values are compared with the values *)
(* of the same history at the weights of ComparedWeights.                  *)
(***************************************************************************)
ComparedWeights == { 10, 150, 1000 }

NotAboveLighter(w, v, w2, v2) ==
    /\ w2 > w => v2 <= v
    /\ w2 < w => v2 >= v

C30_WeightMonotone ==
    /\ resp.op = "guest_data" =>
          \A i \in 1..Len(guests) :
             HasPositiveWeight(i) =>
                \A w2 \in ComparedWeights :
                   NotAboveLighter(guests[i].weight[1],
                       guest_data_response[i].bac, w2,
                       calculate_bac(Some(w2), guest_drinks(i), resp.at))
    /\ ChartOk =>
          LET r == bac_chart_response
          IN  \A w2 \in ComparedWeights :
                 \A k \in 1..Len(r.timestamps) :
                    NotAboveLighter(guests[resp.guest_id].weight[1],
                        r.bac_values[k], w2,
                        bac_sample(w2, guest_drinks(resp.guest_id),
                                   r.timestamps[k]))

====
